---- MODULE Spec2Model ----
(***************************************************************************)
(* A model of the retrieval pipeline of the LoL analytics agent:           *)
(*   - RiotAPIClient._make_request with its two stacked rate limiters,     *)
(*     its response cache and its error classification                     *)
(*     (src/services/riot_api.py),                                         *)
(*   - RiotAPIClient.get_full_match_history, the paginated retrieval,      *)
(*   - the insights / year-end-report request handlers (src/app.py).       *)
(*                                                                         *)
(* Request flows are the greenlets of the gevent worker                    *)
(* (src/gunicorn.conf.py): a flow runs without interruption until it       *)
(* blocks, in time.sleep (the limiter's wait) or in requests.get (the      *)
(* network call).  All flows of a process share the module-level client    *)
(* of src/app.py and the limiter state of the decorated function.          *)
(***************************************************************************)
EXTENDS Integers, Sequences, FiniteSets, TLC

VARIABLES
    now,            \* the clock, in ticks
    sec_limit,      \* @limits(period=1):  [last_reset, num_calls]
    min_limit,      \* @limits(period=60): [last_reset, num_calls]
    cache,          \* self._cache:        url -> response | NoEntry
    cache_expiry,   \* self._cache_expiry: url -> time     | NoEntry
    pc,             \* per flow: "idle" | "sleeping" | "network"
    req,            \* per flow: the arguments of the _make_request in progress
    wake_at,        \* per flow: when its time.sleep ends
    ret,            \* per flow: the outcome of its last _make_request
    ncalls,         \* history: number of _make_request calls made so far
    call_no,        \* history: per flow, the number of its current call
    admitted,       \* history: <<call number, time>> of every run of the body
    issued,         \* history: call numbers in the order requests.get was called
    look,           \* history: per flow, what its cache lookup found
    net_calls,      \* history: per flow, requests.get calls of the current call
    nticks,         \* history: number of free clock steps taken
    h_pc,           \* get_full_match_history: "idle" | "list" | "detail" | "returned" | "done"
    max_matches,    \* its argument
    all_matches,    \* its accumulated records (a record is named by its match id)
    start_index,    \* its cursor
    match_ids,      \* the page of ids being resolved
    idx,            \* position of the for loop in match_ids
    h_result,       \* how it ended: "none" | "return" | "raise"
    response,       \* the handler's HTTP response
    h_log,          \* history: the upstream requests of the retrieval, in order
    shift,          \* upstream: matches the player has finished since the retrieval began
    tz,             \* the time zone of the machine (the platform's local time)
    raw,            \* extract_player_stats: its match_data argument
    matches,        \* process_match_history: its matches argument
    df,             \* the DataFrame of match records (processor.processed_data)
    out,            \* the outcome of the last analysis function applied
    bedrock,        \* the BedrockService singleton: [enabled, client]
    rq              \* per analysis request: its position in the engine and its locals

rateVars  == <<sec_limit, min_limit>>
cacheVars == <<cache, cache_expiry>>
flowVars  == <<pc, req, wake_at, ret>>
histVars  == <<ncalls, call_no, admitted, issued, look, net_calls>>
clientVars == <<now, rateVars, cacheVars, flowVars, histVars, nticks>>
retrievalVars == <<h_pc, max_matches, all_matches, start_index, match_ids, idx,
                   h_result, response, h_log>>
analysisVars == <<shift, tz, raw, matches, df, out>>
engineVars == <<bedrock, rq>>
vars == <<clientVars, retrievalVars, analysisVars, engineVars>>

----------------------------------------------------------------------------
(* Bounds of the model *)

\* Clock resolution: ticks per second.
TicksPerSecond == 2
\* Total number of _make_request calls in one behaviour.
MaxCalls == 4
\* Free one-tick clock steps in one behaviour (waits for a sleeper are extra).
MaxTicks == 3
\* The coarse clock of the cache specification: hours per step, and steps.
HoursPerStep == 12
MaxHourSteps == 3
\* Number of _make_request calls in one behaviour of the cache specification.
MaxCacheCalls == 3
\* config.RIOT_RATE_LIMIT_PER_SECOND / _PER_MINUTE: read from the environment
\* (defaults 20 and 100); the model runs a deployment with small ceilings.
RIOT_RATE_LIMIT_PER_SECOND == 2
RIOT_RATE_LIMIT_PER_MINUTE == 3

\* get_full_match_history's batch_size (100 in the source), scaled down.
batch_size == 3
\* Largest max_matches a request asks for.
MaxMatches == 4
\* Upstream lists no id past this offset.
MaxHistory == 6
\* Matches the player finishes during one retrieval.
MaxShift == 1
\* The largest kills, deaths and assists of a score line.
MaxKills == 10
MaxDeaths == 5
MaxAssists == 3
\* The longest list of matches handed to process_match_history.
MaxInput == 3
\* The longest history handed to the aggregations, and the largest min_games.
MaxRecords == 5
MaxMinGames == 3
\* The longest history handed to the streak and the growth comparison.
MaxSeason == 21
\* The longest history of mixed score lines handed to the threshold rules,
\* and the length of the long histories of plain wins and losses.
MaxProfile == 3
MaxCareer == 25

(* Program constants *)
PERIOD_SECOND == 1      \* @limits(..., period=1)
PERIOD_MINUTE == 60     \* @limits(..., period=60)
cache_hours == 24       \* _make_request(..., cache_hours: int = 24)

Period1  == PERIOD_SECOND * TicksPerSecond
Period60 == PERIOD_MINUTE * TicksPerSecond
TicksPerHour == 3600 * TicksPerSecond

Flows == {1, 2}
Urls == {"u1", "u2"}
NoEntry == "NoEntry"
\* Response bodies: two non-empty JSON documents and an empty list.
Values == {"d1", "d2", "[]"}
\* HTTP statuses raise_for_status turns into an HTTPError; "transport" is a
\* RequestException without a response (timeout, connection error).
Errors == {"404", "403", "429", "500", "transport"}
\* Python truthiness of a response or of None.
Truthy(v) == v \notin {NoEntry, "[]"}

NoReq  == [url |-> "none", use_cache |-> FALSE]
NoRet  == [kind |-> "none"]
NoLook == [done |-> FALSE]
\* Python's None, and the analysis variables before anything is applied.
None    == [kind |-> "None"]
NoInput == [kind |-> "none"]
NoOut   == [op |-> "none"]
\* A flow that is not in the engine.
NoRequest == [pc |-> "idle"]

----------------------------------------------------------------------------
(* ratelimit's decorators as applied to _make_request *)

\* One pass through a limits(calls, period) wrapper on limiter state lim:
\* the window is reset once period has elapsed since last_reset, the attempt is
\* counted, and RateLimitException(period_remaining) is raised above calls.
limits(lim, calls, period) ==
    LET period_remaining == period - (now - lim.last_reset)
        l1 == IF period_remaining <= 0
              THEN [last_reset |-> now, num_calls |-> 0]
              ELSE lim
        l2 == [l1 EXCEPT !.num_calls = @ + 1]
    IN  [lim |-> l2,
         raised |-> l2.num_calls > calls,
         period_remaining |-> period_remaining]

----------------------------------------------------------------------------
(* The cache *)

\* _get_from_cache without the expiry check: whatever is stored is returned.
_get_from_cache_ignoring_expiry(key) ==
    [value |-> cache[key], cache |-> cache, expiry |-> cache_expiry]

\* _get_from_cache(key): the value returned (NoEntry for None) and the cache
\* after the lookup.
_get_from_cache(key) ==
    IF cache[key] # NoEntry
    THEN IF now < cache_expiry[key]
         THEN [value |-> cache[key], cache |-> cache, expiry |-> cache_expiry]
         ELSE [value |-> NoEntry,
               cache |-> [cache EXCEPT ![key] = NoEntry],
               expiry |-> [cache_expiry EXCEPT ![key] = NoEntry]]
    ELSE [value |-> NoEntry, cache |-> cache, expiry |-> cache_expiry]

\* _set_cache(key, data, expiry_hours)
_set_cache(key, data, expiry_hours) ==
    /\ cache' = [cache EXCEPT ![key] = data]
    /\ cache_expiry' = [cache_expiry EXCEPT ![key] = now + expiry_hours * TicksPerHour]

----------------------------------------------------------------------------
(* _make_request *)

\* The body of _make_request up to its first blocking point: the cache lookup,
\* then either the return of the cached response or the start of requests.get.
\* n is the call's number and nc the requests.get calls it has made so far.
Body(p, r, n, nc) ==
    LET c == _get_from_cache(r.url)
    IN  /\ admitted' = Append(admitted, <<n, now>>)
        /\ IF r.use_cache
           THEN /\ cache' = c.cache
                /\ cache_expiry' = c.expiry
                /\ look' = [look EXCEPT ![p] =
                             [done |-> TRUE, at |-> now,
                              found |-> cache[r.url] # NoEntry,
                              value |-> cache[r.url],
                              expiry |-> cache_expiry[r.url]]]
           ELSE /\ UNCHANGED cacheVars
                /\ look' = [look EXCEPT ![p] = NoLook]
        /\ IF r.use_cache /\ Truthy(c.value)
           THEN /\ pc' = [pc EXCEPT ![p] = "idle"]
                /\ ret' = [ret EXCEPT ![p] =
                            [kind |-> "value", data |-> c.value, source |-> "cache"]]
                /\ net_calls' = [net_calls EXCEPT ![p] = nc]
                /\ UNCHANGED issued
           ELSE /\ pc' = [pc EXCEPT ![p] = "network"]
                /\ issued' = Append(issued, n)
                /\ net_calls' = [net_calls EXCEPT ![p] = nc + 1]
                /\ ret' = [ret EXCEPT ![p] = NoRet]
        /\ UNCHANGED wake_at

\* sleep_and_retry on RateLimitException: time.sleep(period_remaining).
Sleep(p, period_remaining, nc) ==
    /\ pc' = [pc EXCEPT ![p] = "sleeping"]
    /\ wake_at' = [wake_at EXCEPT ![p] = now + period_remaining]
    /\ ret' = [ret EXCEPT ![p] = NoRet]
    /\ look' = [look EXCEPT ![p] = NoLook]
    /\ net_calls' = [net_calls EXCEPT ![p] = nc]
    /\ UNCHANGED <<cacheVars, admitted, issued>>

\* The decorated function with the cache in front of the limiters: a call that
\* the cache can answer spends nothing.
Attempt_cache_first(p, r, n, nc) ==
    LET s == limits(sec_limit, RIOT_RATE_LIMIT_PER_SECOND, Period1)
        m == limits(min_limit, RIOT_RATE_LIMIT_PER_MINUTE, Period60)
    IN  IF r.use_cache /\ Truthy(_get_from_cache(r.url).value)
        THEN /\ UNCHANGED rateVars
             /\ Body(p, r, n, nc)
        ELSE IF s.raised
        THEN /\ sec_limit' = s.lim
             /\ UNCHANGED min_limit
             /\ Sleep(p, s.period_remaining, nc)
        ELSE IF m.raised
        THEN /\ sec_limit' = s.lim
             /\ min_limit' = m.lim
             /\ Sleep(p, m.period_remaining, nc)
        ELSE /\ sec_limit' = s.lim
             /\ min_limit' = m.lim
             /\ Body(p, r, n, nc)

\* One pass of flow p through the decorated function: the per-second limiter
\* (outer), the per-minute limiter (inner), then the body.
Attempt(p, r, n, nc) ==
    LET s == limits(sec_limit, RIOT_RATE_LIMIT_PER_SECOND, Period1)
        m == limits(min_limit, RIOT_RATE_LIMIT_PER_MINUTE, Period60)
    IN  IF s.raised
        THEN /\ sec_limit' = s.lim
             /\ UNCHANGED min_limit
             /\ Sleep(p, s.period_remaining, nc)
        ELSE IF m.raised
        THEN /\ sec_limit' = s.lim
             /\ min_limit' = m.lim
             /\ Sleep(p, m.period_remaining, nc)
        ELSE /\ sec_limit' = s.lim
             /\ min_limit' = m.lim
             /\ Body(p, r, n, nc)

\* Flow p calls _make_request(url, use_cache).
Call(p, url, use_cache) ==
    /\ pc[p] = "idle"
    /\ ncalls < MaxCalls
    /\ ncalls' = ncalls + 1
    /\ call_no' = [call_no EXCEPT ![p] = ncalls + 1]
    /\ req' = [req EXCEPT ![p] = [url |-> url, use_cache |-> use_cache]]
    /\ Attempt(p, [url |-> url, use_cache |-> use_cache], ncalls + 1, 0)
    /\ UNCHANGED <<now, nticks>>
    /\ UNCHANGED <<retrievalVars, analysisVars, engineVars>>

\* The sleep of flow p is over: sleep_and_retry calls the function again.
Wake(p) ==
    /\ pc[p] = "sleeping"
    /\ now >= wake_at[p]
    /\ Attempt(p, req[p], call_no[p], net_calls[p])
    /\ UNCHANGED <<now, nticks, ncalls, call_no, req>>
    /\ UNCHANGED <<retrievalVars, analysisVars, engineVars>>

\* The response stored whatever use_cache says.
RespondOk_always_stores(p, data) ==
    /\ pc[p] = "network"
    /\ _set_cache(req[p].url, data, cache_hours)
    /\ pc' = [pc EXCEPT ![p] = "idle"]
    /\ ret' = [ret EXCEPT ![p] = [kind |-> "value", data |-> data, source |-> "network"]]
    /\ UNCHANGED <<now, nticks, rateVars, req, wake_at, histVars>>
    /\ UNCHANGED <<retrievalVars, analysisVars, engineVars>>

\* requests.get of flow p returns a 2xx response with body data.
RespondOk(p, data) ==
    /\ pc[p] = "network"
    /\ IF req[p].use_cache
       THEN _set_cache(req[p].url, data, cache_hours)
       ELSE UNCHANGED cacheVars
    /\ pc' = [pc EXCEPT ![p] = "idle"]
    /\ ret' = [ret EXCEPT ![p] = [kind |-> "value", data |-> data, source |-> "network"]]
    /\ UNCHANGED <<now, nticks, rateVars, req, wake_at, histVars>>
    /\ UNCHANGED <<retrievalVars, analysisVars, engineVars>>

\* The body of the failed response stored like that of a successful one.
RespondError_storing(p, e) ==
    /\ pc[p] = "network"
    /\ IF req[p].use_cache
       THEN _set_cache(req[p].url, "d1", cache_hours)
       ELSE UNCHANGED cacheVars
    /\ pc' = [pc EXCEPT ![p] = "idle"]
    /\ ret' = [ret EXCEPT ![p] = [kind |-> "error", status |-> e]]
    /\ UNCHANGED <<now, nticks, rateVars, req, wake_at, histVars>>
    /\ UNCHANGED <<retrievalVars, analysisVars, engineVars>>

\* requests.get or raise_for_status of flow p raises a RequestException:
\* _make_request raises RiotAPIError.
RespondError(p, e) ==
    /\ pc[p] = "network"
    /\ pc' = [pc EXCEPT ![p] = "idle"]
    /\ ret' = [ret EXCEPT ![p] = [kind |-> "error", status |-> e]]
    /\ UNCHANGED <<now, nticks, rateVars, cacheVars, req, wake_at, histVars>>
    /\ UNCHANGED <<retrievalVars, analysisVars, engineVars>>

----------------------------------------------------------------------------
(* get_full_match_history.  Every upstream request (_make_request by way of
   get_match_ids_by_puuid or get_match_details) is one step: it returns the
   response or raises RiotAPIError; the control flow up to the next request or
   to the return belongs to the step. *)

\* The bound checked one record too late.
BelowMax_inclusive(all) == Len(all) <= max_matches

\* Only an empty page ends the retrieval.
LastPage_only_empty(ids) == Len(ids) = 0

\* A failed detail request ends the retrieval.
DetailFailed_abort(all, ids, i) ==
    /\ h_pc' = "returned"
    /\ h_result' = "return"
    /\ UNCHANGED <<start_index, idx>>

\* len(all_matches) < max_matches: the while condition, and the negation of the
\* for loop's break.
BelowMax(all) == Len(all) < max_matches

\* len(match_ids) < batch_size: the page was the last one.
LastPage(ids) == Len(ids) < batch_size

\* The loop without start_index += batch_size.
Advance_same_offset(all, ids, i) ==
    IF i <= Len(ids) /\ BelowMax(all)
    THEN /\ h_pc' = "detail"
         /\ idx' = i
         /\ start_index' = start_index
         /\ h_result' = h_result
    ELSE /\ idx' = 0
         /\ start_index' = start_index
         /\ IF LastPage(ids) \/ ~BelowMax(all)
            THEN h_pc' = "returned" /\ h_result' = "return"
            ELSE h_pc' = "list" /\ h_result' = h_result

\* From position i of the for loop over ids with all accumulated: request the
\* detail of ids[i], or leave the loop (exhausted, or the break at max_matches),
\* advance the cursor and either return or go on to the next page.
Advance(all, ids, i) ==
    IF i <= Len(ids) /\ BelowMax(all)
    THEN /\ h_pc' = "detail"
         /\ idx' = i
         /\ start_index' = start_index
         /\ h_result' = h_result
    ELSE /\ idx' = 0
         /\ start_index' = start_index + batch_size
         /\ IF LastPage(ids) \/ ~BelowMax(all)
            THEN h_pc' = "returned" /\ h_result' = "return"
            ELSE h_pc' = "list" /\ h_result' = h_result

\* except RiotAPIError around get_match_details: log a warning and continue
\* with the next id.
DetailFailed(all, ids, i) == Advance(all, ids, i + 1)

\* except RiotAPIError around the page: log an error and break; the function
\* then returns what it has accumulated.
ListFailed ==
    /\ h_pc' = "returned"
    /\ h_result' = "return"
    /\ UNCHANGED <<all_matches, start_index, match_ids, idx>>

\* A handler calls get_full_match_history(puuid, max_matches=mm).
StartHistory(mm) ==
    /\ h_pc = "idle"
    /\ max_matches' = mm
    /\ all_matches' = <<>>
    /\ start_index' = 0
    /\ match_ids' = <<>>
    /\ idx' = 0
    /\ IF 0 < mm
       THEN h_pc' = "list" /\ h_result' = "none"
       ELSE h_pc' = "returned" /\ h_result' = "return"
    /\ UNCHANGED <<response, h_log>>
    /\ UNCHANGED <<clientVars, analysisVars, engineVars>>

\* get_match_ids_by_puuid(start=start_index, count=batch_size) returns k ids:
\* the ids at offsets start_index+1 .. start_index+k of the upstream history,
\* most recent first.  A match is named by the offset it had when the retrieval
\* began; every match finished since then has moved the older ones one offset
\* down.
ListOk(k) ==
    /\ h_pc = "list"
    /\ k <= batch_size
    /\ start_index + k <= MaxHistory + shift
    /\ LET ids == [j \in 1..k |-> start_index + j - shift]
       IN  /\ h_log' = Append(h_log, [op |-> "ids", at |-> start_index, res |-> "ok",
                                      n |-> k, acc |-> Len(all_matches)])
           /\ match_ids' = ids
           /\ IF ids = <<>>
              THEN /\ h_pc' = "returned"
                   /\ h_result' = "return"
                   /\ UNCHANGED <<start_index, idx>>
              ELSE Advance(all_matches, ids, 1)
    /\ UNCHANGED <<max_matches, all_matches, response>>
    /\ UNCHANGED <<clientVars, analysisVars, engineVars>>

\* get_match_ids_by_puuid raises RiotAPIError(e).
ListError(e) ==
    /\ h_pc = "list"
    /\ h_log' = Append(h_log, [op |-> "ids", at |-> start_index, res |-> e,
                               n |-> 0, acc |-> Len(all_matches)])
    /\ ListFailed
    /\ UNCHANGED <<max_matches, response>>
    /\ UNCHANGED <<clientVars, analysisVars, engineVars>>

\* get_match_details(match_ids[idx]) returns the match.
DetailOk ==
    /\ h_pc = "detail"
    /\ h_log' = Append(h_log, [op |-> "detail", at |-> match_ids[idx], res |-> "ok",
                               n |-> 0, acc |-> Len(all_matches)])
    /\ all_matches' = Append(all_matches, match_ids[idx])
    /\ Advance(all_matches', match_ids, idx + 1)
    /\ UNCHANGED <<max_matches, match_ids, response>>
    /\ UNCHANGED <<clientVars, analysisVars, engineVars>>

\* get_match_details(match_ids[idx]) raises RiotAPIError(e).
DetailError(e) ==
    /\ h_pc = "detail"
    /\ h_log' = Append(h_log, [op |-> "detail", at |-> match_ids[idx], res |-> e,
                               n |-> 0, acc |-> Len(all_matches)])
    /\ DetailFailed(all_matches, match_ids, idx)
    /\ UNCHANGED <<max_matches, all_matches, match_ids, response>>
    /\ UNCHANGED <<clientVars, analysisVars, engineVars>>

\* The rest of generate_insights / generate_year_end_report once the history
\* is back: 404 without matches, else the engine's bundle (200), or 500 when the
\* engine raises; 400 when a RiotAPIError reaches the handler.
Handler(engine_ok) ==
    /\ h_pc = "returned"
    /\ h_pc' = "done"
    /\ response' = IF h_result = "raise" THEN "400 RiotAPIError"
                   ELSE IF all_matches = <<>> THEN "404 No match history found"
                   ELSE IF engine_ok THEN "200" ELSE "500"
    /\ UNCHANGED <<max_matches, all_matches, start_index, match_ids, idx, h_result, h_log>>
    /\ UNCHANGED <<clientVars, analysisVars, engineVars>>

----------------------------------------------------------------------------
(* MatchDataProcessor: the record normalizer (src/services/data_processor.py).

   A payload field is Absent (the dict has no such key), Null (JSON null,
   Python's None) or Val(v).  Numbers that Python keeps as floats rounded to
   two decimals are kept in hundredths. *)

Absent == [is |-> "absent"]
Null   == [is |-> "null"]
Val(v) == [is |-> "value", v |-> v]
\* dict.get(key, default): the default for an absent key only.
get(field, default) == IF field.is = "absent" THEN Val(default) ELSE field

\* An exception that leaves a function in place of its value.
Raise(exc) == [is |-> "raise", exc |-> exc]

\* The identity under analysis, and the zones a machine may run in.
Subject == "me"
Zones == {"UTC", "Europe/Berlin"}

Participant(puuid, champion, position, win, kills, deaths, assists, minions, jungle, vision, damage, pentas) ==
    [puuid |-> puuid, championName |-> champion, teamPosition |-> position,
     win |-> win, kills |-> kills, deaths |-> deaths, assists |-> assists,
     totalMinionsKilled |-> minions, neutralMinionsKilled |-> jungle,
     visionScore |-> vision, totalDamageDealtToChampions |-> damage,
     pentaKills |-> pentas]

\* Another player of the match.
Opponent == Participant("other", "Garen", "TOP", TRUE, 1, 1, 1, 100, 0, 10, 5000, 0)

\* A match payload: metadata.matchId and the fields of info.
Match(id, created, duration, participants) ==
    [kind |-> "match", matchId |-> id, gameCreation |-> created,
     gameDuration |-> duration, participants |-> participants]

\* The nearest integer to n / d, ties to the even one: Python's round() of the
\* quotient scaled to the kept decimals.  (round() works on the binary float;
\* the two differ only on a tie whose float is inexact, and such a quotient
\* needs a divisor with a factor 8 for two decimals of a ratio of integers.)
RoundDiv(n, d) ==
    LET nn == IF d < 0 THEN -n ELSE n
        dd == IF d < 0 THEN -d ELSE d
        q  == nn \div dd
        r  == nn % dd
    IN  IF 2 * r < dd THEN q
        ELSE IF 2 * r > dd THEN q + 1
        ELSE IF q % 2 = 0 THEN q ELSE q + 1

\* The division of _calculate_kda made without the deaths == 0 case.
_calculate_kda_unguarded(kills, deaths, assists) ==
    IF deaths = 0 THEN Raise("ZeroDivisionError")
    ELSE Val(RoundDiv(100 * (kills + assists), deaths))

\* _calculate_kda(kills, deaths, assists), in hundredths.
_calculate_kda(kills, deaths, assists) ==
    IF deaths = 0
    THEN Val(100 * (kills + assists))
    ELSE Val(RoundDiv(100 * (kills + assists), deaths))

\* _calculate_cs_per_minute(minions, jungle, duration), in hundredths:
\* total_cs / (duration / 60), and 0 when duration / 60 == 0.
_calculate_cs_per_minute(minions, jungle, duration) ==
    LET total_cs == minions + jungle
    IN  IF duration = 0
        THEN Val(0)
        ELSE Val(RoundDiv(100 * total_cs * 60, duration))

\* The offset of local time from UTC at instant t (seconds) in the machine's
\* zone: none in "UTC"; in "Europe/Berlin" two hours of summer time up to the
\* instant the clocks are set back, one hour from then on.
utcoffset(zone, t) ==
    LET set_back == 3600
    IN  IF zone = "UTC" THEN 0
        ELSE IF t < set_back THEN 7200 ELSE 3600

\* datetime.fromtimestamp(t): the naive local date and time of instant t, in
\* seconds of local time.
fromtimestamp(zone, t) == t + utcoffset(zone, t)

\* The position of the first participant with the puuid, 0 when there is none.
FindParticipant(participants, puuid) ==
    IF \E i \in DOMAIN participants : participants[i].puuid = puuid
    THEN CHOOSE i \in DOMAIN participants :
            /\ participants[i].puuid = puuid
            /\ \A j \in 1..(i-1) : participants[j].puuid # puuid
    ELSE 0


\* The try block of extract_player_stats: the record, None when the player is
\* not found, or the exception of a null payload field.
extract_try(zone, match_data, puuid) ==
    LET participants == get(match_data.participants, <<>>)
    IN  IF participants.is = "null"
        THEN Raise("TypeError")
        ELSE
        LET i == FindParticipant(participants.v, puuid)
        IN  IF i = 0
            THEN Null
            ELSE
            LET player_data == participants.v[i]
                created == get(match_data.gameCreation, 0)
                duration == get(match_data.gameDuration, 0)
                cs_duration == get(match_data.gameDuration, 1)
                kda == _calculate_kda(player_data.kills, player_data.deaths,
                                      player_data.assists)
            IN  IF created.is = "null" \/ cs_duration.is = "null"
                THEN Raise("TypeError")
                ELSE IF kda.is = "raise"
                THEN kda
                ELSE Val([
                    match_id |-> match_data.matchId,
                    game_creation |-> match_data.gameCreation,
                    game_datetime |-> fromtimestamp(zone, created.v),
                    game_duration |-> duration.v,
                    champion_name |-> player_data.championName,
                    team_position |-> player_data.teamPosition,
                    win |-> player_data.win,
                    kills |-> player_data.kills,
                    deaths |-> player_data.deaths,
                    assists |-> player_data.assists,
                    kda |-> kda.v,
                    total_damage_dealt_to_champions |->
                        player_data.totalDamageDealtToChampions,
                    total_minions_killed |-> player_data.totalMinionsKilled,
                    neutral_minions_killed |-> player_data.neutralMinionsKilled,
                    cs_per_minute |->
                        _calculate_cs_per_minute(player_data.totalMinionsKilled,
                                                 player_data.neutralMinionsKilled,
                                                 cs_duration.v).v,
                    vision_score |-> player_data.visionScore,
                    penta_kills |-> player_data.pentaKills])

\* extract_player_stats without its except clause.
extract_player_stats_uncaught(zone, match_data, puuid) ==
    extract_try(zone, match_data, puuid)

\* extract_player_stats(match_data, puuid): any exception is logged and None
\* returned.
extract_player_stats(zone, match_data, puuid) ==
    LET r == extract_try(zone, match_data, puuid)
    IN  IF r.is = "raise" THEN Null ELSE r

\* DataFrame.sort_values(by, ascending): the frames the sort may return, which
\* are the orders of the rows that are monotone in the key (the order of rows
\* with equal keys is the sort algorithm's).
sort_values(rows, by, ascending) ==
    LET n == Len(rows)
        perms == {f \in [1..n -> 1..n] : \A i, j \in 1..n : i # j => f[i] # f[j]}
        sorted(f) == \A i \in 1..(n-1) :
                        IF ascending THEN rows[f[i]][by] <= rows[f[i+1]][by]
                                     ELSE rows[f[i]][by] >= rows[f[i+1]][by]
    IN  {[i \in 1..n |-> rows[f[i]]] : f \in {g \in perms : sorted(g)}}

\* Series.dt.to_period('M'), in months of thirty days from the epoch of the model.
to_period_M(datetime) == datetime \div 2592000

\* The derived columns process_match_history adds to a row.
derived(row) ==
    [c \in DOMAIN row \cup {"win_numeric", "month"} |->
        IF c = "win_numeric" THEN (IF row.win THEN 1 ELSE 0)
        ELSE IF c = "month" THEN to_period_M(row.game_datetime)
        ELSE row[c]]


\* The rows sorted with the oldest first.
sort_by_date_ascending(rows) == sort_values(rows, "game_datetime", TRUE)

\* df.sort_values('game_datetime', ascending=False)
sort_by_date(rows) == sort_values(rows, "game_datetime", FALSE)

\* process_match_history(matches, puuid): the frames it may return (one but
\* for the order of rows of equal game_datetime), or the exception it raises.
process_match_history(zone, ms, puuid) ==
    LET results == [i \in DOMAIN ms |-> extract_player_stats(zone, ms[i], puuid)]
        kept == SelectSeq(results, LAMBDA stats : stats.is = "value")
        processed_matches == [i \in DOMAIN kept |-> kept[i].v]
    IN  IF \E i \in DOMAIN results : results[i].is = "raise"
        THEN {Raise("TypeError")}
        ELSE IF processed_matches = <<>>
        THEN {Val(<<>>)}
        ELSE {Val([i \in DOMAIN sorted |-> derived(sorted[i])]) :
                sorted \in sort_by_date(processed_matches)}

----------------------------------------------------------------------------
(* MatchDataProcessor: the aggregations.  A DataFrame is the sequence of its
   rows; a dict is a function of its keys, the empty dict the empty function.
   Means rounded to two decimals are in hundredths, to one decimal in tenths. *)

RECURSIVE SumTo(_, _, _)
SumTo(rows, col, n) == IF n = 0 THEN 0 ELSE rows[n][col] + SumTo(rows, col, n - 1)
\* df[col].sum()
sum(rows, col) == SumTo(rows, col, Len(rows))
\* round(df[col].mean(), ndigits), scale being 10^ndigits over the unit of col.
mean(rows, col, scale) == RoundDiv(scale * sum(rows, col), Len(rows))
\* df[col].max()
max(rows, col) ==
    LET vals == {rows[i][col] : i \in DOMAIN rows}
    IN  CHOOSE v \in vals : \A w \in vals : w <= v
\* df[df[col] == key]
where(rows, col, key) == SelectSeq(rows, LAMBDA r : r[col] = key)
\* df[col].unique()
unique(rows, col) == {rows[i][col] : i \in DOMAIN rows}
\* The elements of a finite set in some order.
RECURSIVE SeqOf(_)
SeqOf(S) == IF S = {} THEN <<>> ELSE LET x == CHOOSE x \in S : TRUE
                                     IN  <<x>> \o SeqOf(S \ {x})

EmptyDict == <<>>
EmptyFrame == <<>>

\* Lines 210-252 of calculate_overall_stats: the statistics of a frame with rows.
overall_stats(rows) ==
    LET total_games == Len(rows)
        wins == sum(rows, "win_numeric")
    IN  Val([total_games |-> total_games,
             wins |-> wins,
             losses |-> total_games - wins,
             win_rate |-> RoundDiv(10000 * wins, total_games),
             avg_kills |-> mean(rows, "kills", 100),
             avg_deaths |-> mean(rows, "deaths", 100),
             avg_assists |-> mean(rows, "assists", 100),
             avg_kda |-> mean(rows, "kda", 1),
             avg_damage_dealt |-> mean(rows, "total_damage_dealt_to_champions", 1),
             max_damage_dealt |-> max(rows, "total_damage_dealt_to_champions"),
             avg_cs_per_minute |-> mean(rows, "cs_per_minute", 1),
             avg_vision_score |-> mean(rows, "vision_score", 10),
             total_penta_kills |-> sum(rows, "penta_kills")])

\* calculate_overall_stats without the df.empty check: an empty frame has no
\* 'win' column.
calculate_overall_stats_unchecked(rows) ==
    IF rows = <<>> THEN Raise("KeyError") ELSE overall_stats(rows)

\* calculate_overall_stats(df)
calculate_overall_stats(rows) ==
    IF rows = <<>> THEN Val(EmptyDict) ELSE overall_stats(rows)

\* The champions with more than min_games rows.
enough_games_exclusive(row, min_games) == row.games > min_games

\* champion_stats['games'] >= min_games
enough_games(row, min_games) == row.games >= min_games

\* get_champion_statistics(df, min_games): the frames it may return (one but
\* for the order of champions with equal games).  win_rate is the mean of win
\* rounded to two decimals, then times 100.
get_champion_statistics(rows, min_games) ==
    IF rows = <<>>
    THEN {Val(EmptyFrame)}
    ELSE LET stats(c) ==
                 LET g == where(rows, "champion_name", c)
                 IN  [champion_name |-> c,
                      games |-> Len(g),     \* the count of match_id: every row has one
                      wins |-> sum(g, "win_numeric"),
                      win_rate |-> 100 * RoundDiv(100 * sum(g, "win_numeric"), Len(g)),
                      avg_kills |-> mean(g, "kills", 100),
                      avg_deaths |-> mean(g, "deaths", 100),
                      avg_assists |-> mean(g, "assists", 100),
                      avg_kda |-> mean(g, "kda", 1),
                      avg_damage |-> mean(g, "total_damage_dealt_to_champions", 100),
                      avg_cs_per_min |-> mean(g, "cs_per_minute", 1),
                      avg_vision_score |-> mean(g, "vision_score", 100)]
             champion_stats == SeqOf({stats(c) : c \in unique(rows, "champion_name")})
             filtered == SelectSeq(champion_stats, LAMBDA r : enough_games(r, min_games))
         IN  {Val(f) : f \in sort_values(filtered, "games", FALSE)}

\* get_role_statistics(df)
get_role_statistics(rows) ==
    IF rows = <<>>
    THEN Val(EmptyDict)
    ELSE Val([role \in unique(rows, "team_position") \ {""} |->
                LET role_df == where(rows, "team_position", role)
                IN  [games |-> Len(role_df),
                     wins |-> sum(role_df, "win_numeric"),
                     win_rate |-> RoundDiv(10000 * sum(role_df, "win_numeric"), Len(role_df)),
                     avg_kda |-> mean(role_df, "kda", 1),
                     avg_damage |-> mean(role_df, "total_damage_dealt_to_champions", 1)]])

\* get_performance_trends(df, 'month'): one row per month, the months ascending.
get_performance_trends(rows) ==
    IF rows = <<>>
    THEN Val(EmptyFrame)
    ELSE LET trend(m) ==
                 LET g == where(rows, "month", m)
                 IN  [month |-> m,
                      games |-> Len(g),
                      win_rate |-> 100 * RoundDiv(100 * sum(g, "win_numeric"), Len(g)),
                      avg_kda |-> mean(g, "kda", 1),
                      avg_damage |-> mean(g, "total_damage_dealt_to_champions", 100),
                      avg_cs_per_min |-> mean(g, "cs_per_minute", 1),
                      avg_vision_score |-> mean(g, "vision_score", 100)]
             trends == SeqOf({trend(m) : m \in unique(rows, "month")})
         IN  Val(CHOOSE f \in sort_values(trends, "month", TRUE) : TRUE)

\* The mean of n values of sum total is at least limit.
mean_over_inclusive(total, n, limit) == total >= limit * n

\* avg > limit, avg the mean of n values of sum total.
mean_over(total, n, limit) == total > limit * n

\* identify_weaknesses(df): the dict of the weaknesses found, each with its
\* value and severity.
identify_weaknesses(rows) ==
    IF rows = <<>>
    THEN Val(EmptyDict)
    ELSE LET n == Len(rows)
             losses == where(rows, "win", FALSE)
             damage == "total_damage_dealt_to_champions"
             found ==
                 {w \in {"high_deaths", "low_vision", "low_cs", "low_damage_in_losses"} :
                     \/ w = "high_deaths" /\ mean_over(sum(rows, "deaths"), n, 6)
                     \/ w = "low_vision" /\ sum(rows, "vision_score") < 30 * n
                     \/ w = "low_cs" /\ sum(rows, "cs_per_minute") < 500 * n
                     \/ /\ w = "low_damage_in_losses"
                        /\ losses # <<>>
                        /\ 10 * sum(losses, damage) * n < 7 * sum(rows, damage) * Len(losses)}
         IN  Val([w \in found |->
                    IF w = "high_deaths"
                    THEN [value |-> mean(rows, "deaths", 100),
                          severity |-> IF mean_over(sum(rows, "deaths"), n, 8)
                                       THEN "high" ELSE "medium"]
                    ELSE IF w = "low_vision"
                    THEN [value |-> mean(rows, "vision_score", 10),
                          severity |-> IF sum(rows, "vision_score") < 20 * n
                                       THEN "high" ELSE "medium"]
                    ELSE IF w = "low_cs"
                    THEN [value |-> mean(rows, "cs_per_minute", 1), severity |-> "medium"]
                    ELSE [value |-> mean(losses, damage, 1), severity |-> "medium"]])

----------------------------------------------------------------------------
(* InsightsEngine: streak and growth (src/services/insights_engine.py) *)

Max(a, b) == IF a >= b THEN a ELSE b

\* A statistic below which _identify_strengths reports nothing, exclusive.
reaches_exclusive(value, threshold) == value > threshold

\* overall[stat] >= threshold
reaches(value, threshold) == value >= threshold

\* df.head(n)
head(rows, n) == SubSeq(rows, 1, IF Len(rows) < n THEN Len(rows) ELSE n)

\* _analyze_recent_performance with the whole frame taken for the recent games.
_analyze_recent_performance_whole_frame(rows, games) ==
    IF rows = <<>>
    THEN Val(EmptyDict)
    ELSE LET stats == calculate_overall_stats(rows).v
         IN  Val([k \in DOMAIN stats \cup
                          {"games_analyzed", "win_rate_change", "kda_change", "trend"} |->
                    IF k = "games_analyzed" THEN Len(rows)
                    ELSE IF k \in {"win_rate_change", "kda_change"} THEN 0
                    ELSE IF k = "trend" THEN "stable"
                    ELSE stats[k]])

\* _analyze_recent_performance(df, games): the statistics of the first games
\* rows with their difference from those of the whole frame.
_analyze_recent_performance(rows, games) ==
    LET recent_df == head(rows, games)
    IN  IF recent_df = <<>>
        THEN Val(EmptyDict)
        ELSE
        LET recent_stats == calculate_overall_stats(recent_df).v
            full_stats == calculate_overall_stats(rows).v
            wr_diff == recent_stats.win_rate - full_stats.win_rate
            kda_diff == recent_stats.avg_kda - full_stats.avg_kda
        IN  Val([k \in DOMAIN recent_stats \cup
                          {"games_analyzed", "win_rate_change", "kda_change", "trend"} |->
                    IF k = "games_analyzed" THEN Len(recent_df)
                    ELSE IF k = "win_rate_change" THEN wr_diff
                    ELSE IF k = "kda_change" THEN kda_diff
                    ELSE IF k = "trend"
                    THEN (IF wr_diff > 0 THEN "improving"
                          ELSE IF wr_diff < 0 THEN "declining" ELSE "stable")
                    ELSE recent_stats[k]])

\* 'improving' if recent > previous else 'declining'
trend_label(recent, previous) == IF recent > previous THEN "improving" ELSE "declining"

\* _get_performance_trends(df): the monthly frame with the labels of the win
\* rate and of the kda, the last row being the most recent month.
_get_performance_trends(rows) ==
    LET monthly == get_performance_trends(rows).v
        last == Len(monthly)
    IN  Val([monthly_trends |-> monthly,
             win_rate_trend |-> IF last >= 2
                                THEN trend_label(monthly[last].win_rate,
                                                 monthly[last - 1].win_rate)
                                ELSE "stable",
             kda_trend |-> IF last >= 2
                           THEN trend_label(monthly[last].avg_kda, monthly[last - 1].avg_kda)
                           ELSE "stable"])

\* _identify_strengths(df): the dict of the strengths found, each with its
\* value.  calculate_overall_stats gives {} for an empty frame and the first
\* subscript raises.
_identify_strengths(rows) ==
    LET overall == calculate_overall_stats(rows).v
        found ==
            {k \in {"win_rate", "kda", "vision", "cs", "pentakills"} :
                \/ k = "win_rate" /\ reaches(overall.win_rate, 5200)
                \/ k = "kda" /\ reaches(overall.avg_kda, 300)
                \/ k = "vision" /\ reaches(overall.avg_vision_score, 350)
                \/ k = "cs" /\ reaches(overall.avg_cs_per_minute, 600)
                \/ k = "pentakills" /\ overall.total_penta_kills > 0}
    IN  IF rows = <<>>
        THEN Raise("KeyError")
        ELSE Val([k \in found |->
                    IF k = "win_rate" THEN overall.win_rate
                    ELSE IF k = "kda" THEN overall.avg_kda
                    ELSE IF k = "vision" THEN overall.avg_vision_score
                    ELSE IF k = "cs" THEN overall.avg_cs_per_minute
                    ELSE overall.total_penta_kills])

\* The for loop of _calculate_max_streak from row i on.
RECURSIVE streak_loop(_, _, _, _, _)
streak_loop(rows, column, i, current_streak, max_streak) ==
    IF i > Len(rows) THEN max_streak
    ELSE IF rows[i][column]
    THEN streak_loop(rows, column, i + 1, current_streak + 1,
                     Max(max_streak, current_streak + 1))
    ELSE streak_loop(rows, column, i + 1, 0, max_streak)

\* The loop without the reset of current_streak: the true values are counted.
_calculate_max_streak_no_reset(rows, column) ==
    Len(SelectSeq(rows, LAMBDA r : r[column]))

\* _calculate_max_streak(df, column): the rows are read in the order of the frame.
_calculate_max_streak(rows, column) == streak_loop(rows, column, 1, 0, 0)

\* The five deltas of _calculate_growth_metrics, second_stats minus first_stats.
growth_deltas(first_stats, second_stats) ==
    [win_rate_change |-> second_stats.win_rate - first_stats.win_rate,
     kda_change |-> second_stats.avg_kda - first_stats.avg_kda,
     damage_change |-> second_stats.avg_damage_dealt - first_stats.avg_damage_dealt,
     cs_change |-> second_stats.avg_cs_per_minute - first_stats.avg_cs_per_minute,
     vision_change |-> second_stats.avg_vision_score - first_stats.avg_vision_score]

\* _calculate_growth_metrics with the halves taken the other way round.
_calculate_growth_metrics_halves_swapped(rows) ==
    IF Len(rows) < 20
    THEN Val(EmptyDict)
    ELSE LET midpoint == Len(rows) \div 2
         IN  Val(growth_deltas(
                    calculate_overall_stats(SubSeq(rows, 1, midpoint)).v,
                    calculate_overall_stats(SubSeq(rows, midpoint + 1, Len(rows))).v))

\* _calculate_growth_metrics(df)
_calculate_growth_metrics(rows) ==
    IF Len(rows) < 20
    THEN Val(EmptyDict)
    ELSE LET midpoint == Len(rows) \div 2
             first_half == SubSeq(rows, midpoint + 1, Len(rows))
             second_half == SubSeq(rows, 1, midpoint)
             first_stats == calculate_overall_stats(first_half).v
             second_stats == calculate_overall_stats(second_half).v
         IN  Val(growth_deltas(first_stats, second_stats))

----------------------------------------------------------------------------
(* BedrockService (src/services/aws_services.py).  A text is the sequence of its
   lines; of a line the model keeps whether it is blank and whether it starts
   with a digit. *)

Line(text, numbered) == [text |-> text, numbered |-> numbered, about |-> ""]

\* _generate_fallback_text(prompt)
_generate_fallback_text == <<Line("AI-generated content is currently unavailable.", FALSE)>>

\* What invoke_model does: it raises, or it returns a body that is not JSON, or
\* a JSON body with the text of the model.
Replies ==
    {[kind |-> "raise", exc |-> "ClientError", json |-> FALSE, text |-> <<>>],
     [kind |-> "raise", exc |-> "ReadTimeout", json |-> FALSE, text |-> <<>>],
     [kind |-> "body", exc |-> "", json |-> FALSE, text |-> <<>>],
     [kind |-> "body", exc |-> "", json |-> TRUE,
      text |-> <<Line("Here is some advice.", FALSE), Line("", FALSE)>>],
     [kind |-> "body", exc |-> "", json |-> TRUE,
      text |-> <<Line("Your tips:", FALSE), Line("1. Ward more", TRUE),
                 Line("", FALSE), Line("2. Die less", TRUE)>>]}

\* generate_text without its except clauses.
generate_text_uncaught(service, reply) ==
    IF ~service.enabled \/ ~service.client
    THEN Val(_generate_fallback_text)
    ELSE IF reply.kind = "raise" THEN Raise(reply.exc)
    ELSE IF ~reply.json THEN Raise("JSONDecodeError")
    ELSE Val(reply.text)

\* generate_text(prompt): the text of the model, the fallback text when the
\* service is off or anything is raised.
generate_text(service, reply) ==
    IF ~service.enabled \/ ~service.client
    THEN Val(_generate_fallback_text)
    ELSE IF reply.kind = "raise" THEN Val(_generate_fallback_text)
    ELSE IF ~reply.json THEN Val(_generate_fallback_text)
    ELSE Val(reply.text)

\* The keys of the weaknesses dict in the order identify_weaknesses inserts them.
WeaknessOrder == <<"high_deaths", "low_vision", "low_cs", "low_damage_in_losses">>
\* data.get('suggestion') of each weakness, one line each.
Suggestions(weaknesses) ==
    LET keys == SelectSeq(WeaknessOrder, LAMBDA k : k \in DOMAIN weaknesses)
    IN  [i \in 1..Len(keys) |-> [text |-> "suggestion", numbered |-> FALSE, about |-> keys[i]]]

\* _generate_fallback_tips(weaknesses)
_generate_fallback_tips(weaknesses) == head(Suggestions(weaknesses), 5)

\* generate_coaching_tips(weaknesses, champion_stats, recent_performance): the
\* lines of the response that start with a digit, at most five, or the fallback
\* tips when there is none.
generate_coaching_tips(service, weaknesses, reply) ==
    LET generated == generate_text(service, reply)
    IN  IF generated.is = "raise"
        THEN generated
        ELSE LET tips == SelectSeq(generated.v, LAMBDA l : l.text # "" /\ l.numbered)
             IN  Val(IF tips # <<>> THEN head(tips, 5)
                                   ELSE _generate_fallback_tips(weaknesses))

\* generate_player_summary and generate_motivational_message return the text.
generate_player_summary(service, reply) == generate_text(service, reply)
generate_motivational_message(service, reply) == generate_text(service, reply)

----------------------------------------------------------------------------
(* InsightsEngine: the bundles (src/services/insights_engine.py) *)

\* identify_best_champions(df, top_n): the champions of get_champion_statistics
\* with min_games=3, at most top_n.  (Several champions come in the order of
\* performance_score, which the model does not compute: the frames of the
\* report specifications hold one champion.)
identify_best_champions(rows, top_n) ==
    LET champion_stats == (CHOOSE f \in get_champion_statistics(rows, 3) : TRUE).v
    IN  head([i \in 1..Len(champion_stats) |->
                [champion |-> champion_stats[i].champion_name,
                 games |-> champion_stats[i].games,
                 wins |-> champion_stats[i].wins,
                 win_rate |-> champion_stats[i].win_rate,
                 avg_kda |-> champion_stats[i].avg_kda]], top_n)

\* _generate_coaching_tips(df): the tips of the collaborator when it is enabled
\* and gives some, otherwise the suggestions of the weaknesses and a word on the
\* best champion, five at most.
_generate_coaching_tips(rows, service, reply) ==
    LET weaknesses == identify_weaknesses(rows).v
        champion_stats == identify_best_champions(rows, 3)
        generated == IF service.enabled
                     THEN generate_coaching_tips(service, weaknesses, reply)
                     ELSE Val(<<>>)
        reinforcement ==
            IF champion_stats # <<>>
            THEN <<[text |-> "Continue mastering", numbered |-> FALSE,
                    about |-> champion_stats[1].champion]>>
            ELSE <<>>
    IN  IF generated.is = "raise" THEN generated
        ELSE IF generated.v # <<>> THEN generated
        ELSE Val(head(Suggestions(weaknesses) \o reinforcement, 5))

\* _generate_ai_summary(insights): the summary, "" when anything is raised.
_generate_ai_summary(service, reply) ==
    LET summary == generate_player_summary(service, reply)
    IN  IF summary.is = "raise" THEN Val(<<>>) ELSE summary

\* The sections of generate_comprehensive_insights that are computed from the
\* frame alone (champion_stats is kept as its best_champions; playstyle and
\* achievements are left out).
statistical_sections(rows) ==
    [total_matches_analyzed |-> Len(rows),
     overall_stats |-> calculate_overall_stats(rows).v,
     best_champions |-> identify_best_champions(rows, 5),
     role_stats |-> get_role_statistics(rows).v,
     trends |-> _get_performance_trends(rows).v,
     strengths |-> _identify_strengths(rows).v,
     weaknesses |-> identify_weaknesses(rows).v,
     recent_performance |-> _analyze_recent_performance(rows, 20).v]

\* The first row with the largest value of the column: Series.idxmax().
idxmax(rows, col) ==
    CHOOSE i \in DOMAIN rows :
        /\ \A j \in DOMAIN rows : rows[j][col] <= rows[i][col]
        /\ \A j \in 1..(i-1) : rows[j][col] < rows[i][col]

\* _find_memorable_moments(df): the best game, the game of the highest damage
\* and the first penta kill.
_find_memorable_moments(rows) ==
    LET moment(title, row) ==
            [title |-> title, champion_name |-> row.champion_name,
             date |-> row.game_datetime]
        penta_games == SelectSeq(rows, LAMBDA r : r.penta_kills > 0)
    IN  <<moment("Best Game", rows[idxmax(rows, "kda")]),
          moment("Highest Damage", rows[idxmax(rows, "total_damage_dealt_to_champions")])>>
        \o (IF penta_games # <<>>
            THEN <<moment("Pentakill!", penta_games[Len(penta_games)])>>
            ELSE <<>>)

\* _get_monthly_progression(df)
_get_monthly_progression(rows) ==
    LET monthly == get_performance_trends(rows).v
    IN  [i \in 1..Len(monthly) |->
            [month |-> monthly[i].month, games |-> monthly[i].games,
             win_rate |-> monthly[i].win_rate, avg_kda |-> monthly[i].avg_kda]]

\* _get_top_achievements(df)
_get_top_achievements(rows) ==
    LET stats == calculate_overall_stats(rows).v
    IN  SelectSeq(<<"win_rate", "penta_kills", "games", "kda">>,
                  LAMBDA a : \/ a = "win_rate" /\ stats.win_rate >= 5500
                             \/ a = "penta_kills" /\ stats.total_penta_kills > 0
                             \/ a = "games" /\ stats.total_games >= 200
                             \/ a = "kda" /\ stats.avg_kda >= 350)

\* _get_fun_stats(df): its sums.
_get_fun_stats(rows) ==
    [total_kills |-> sum(rows, "kills"),
     total_deaths |-> sum(rows, "deaths"),
     total_assists |-> sum(rows, "assists"),
     total_minions_slain |-> sum(rows, "total_minions_killed")
                                + sum(rows, "neutral_minions_killed")]

\* The sections generate_year_end_report adds, computed from the frame it reads.
year_end_sections(rows) ==
    [memorable_moments |-> _find_memorable_moments(rows),
     monthly_progression |-> _get_monthly_progression(rows),
     top_achievements |-> _get_top_achievements(rows),
     fun_stats |-> _get_fun_stats(rows),
     growth_metrics |-> _calculate_growth_metrics(rows).v]

----------------------------------------------------------------------------
(* The retrieval against a history that grows, and the analysis of its result *)

\* Upstream: the player finishes another match while the retrieval is under way.
NewMatch ==
    /\ h_pc \in {"list", "detail"}
    /\ shift < MaxShift
    /\ shift' = shift + 1
    /\ UNCHANGED <<tz, raw, matches, df, out>>
    /\ UNCHANGED <<clientVars, retrievalVars, engineVars>>

\* The payload upstream holds for match id: a match of the subject, created a
\* day after the match listed next.
UpstreamMatch(id) ==
    Match(id, Val(86400 * (MaxHistory + 1 - id)), Val(1800),
          Val(<<Opponent,
                Participant(Subject, "Ahri", "MIDDLE", id % 2 = 0, 4, 2, 6, 150, 10, 20, 9000, 0)>>))

\* generate_insights once the history is back and holds a match:
\* generate_comprehensive_insights hands the list to process_match_history.
Analyse ==
    /\ h_pc = "returned"
    /\ all_matches # <<>>
    /\ out = NoOut
    /\ LET ms == [i \in DOMAIN all_matches |-> UpstreamMatch(all_matches[i])]
       IN  /\ matches' = ms
           /\ \E res \in process_match_history(tz, ms, Subject) :
                 /\ out' = [op |-> "process_match_history", res |-> res]
                 /\ df' = IF res.is = "value" /\ res.v # <<>>
                          THEN [kind |-> "DataFrame", rows |-> res.v]
                          ELSE df
    /\ UNCHANGED <<shift, tz, raw>>
    /\ UNCHANGED <<clientVars, retrievalVars, engineVars>>

----------------------------------------------------------------------------
(* The clock *)

Sleepers == {p \in Flows : pc[p] = "sleeping" /\ wake_at[p] > now}

\* One tick passes.
Tick ==
    /\ nticks < MaxTicks
    /\ now' = now + 1
    /\ nticks' = nticks + 1
    /\ UNCHANGED <<rateVars, cacheVars, flowVars, histVars>>
    /\ UNCHANGED <<retrievalVars, analysisVars, engineVars>>

\* Time passes until the earliest pending sleep ends.
TickToWake ==
    /\ Sleepers # {}
    /\ \E p \in Sleepers :
          /\ \A q \in Sleepers : wake_at[p] <= wake_at[q]
          /\ now' = wake_at[p]
    /\ UNCHANGED <<nticks, rateVars, cacheVars, flowVars, histVars>>
    /\ UNCHANGED <<retrievalVars, analysisVars, engineVars>>

\* HoursPerStep hours pass.
TickHours ==
    /\ nticks < MaxHourSteps
    /\ now' = now + HoursPerStep * TicksPerHour
    /\ nticks' = nticks + 1
    /\ UNCHANGED <<rateVars, cacheVars, flowVars, histVars>>
    /\ UNCHANGED <<retrievalVars, analysisVars, engineVars>>

----------------------------------------------------------------------------
\* The collaborator as config.ENABLE_BEDROCK has it by default, and no analysis
\* request in the engine.
InitEngine ==
    /\ bedrock = [enabled |-> TRUE, client |-> TRUE]
    /\ rq = [p \in Flows |-> NoRequest]

InitService ==
    /\ now = 0
    /\ sec_limit = [last_reset |-> 0, num_calls |-> 0]
    /\ min_limit = [last_reset |-> 0, num_calls |-> 0]
    /\ cache = [u \in Urls |-> NoEntry]
    /\ cache_expiry = [u \in Urls |-> NoEntry]
    /\ pc = [p \in Flows |-> "idle"]
    /\ req = [p \in Flows |-> NoReq]
    /\ wake_at = [p \in Flows |-> 0]
    /\ ret = [p \in Flows |-> NoRet]
    /\ ncalls = 0
    /\ call_no = [p \in Flows |-> 0]
    /\ admitted = <<>>
    /\ issued = <<>>
    /\ look = [p \in Flows |-> NoLook]
    /\ net_calls = [p \in Flows |-> 0]
    /\ nticks = 0
    /\ h_pc = "idle"
    /\ max_matches = 0
    /\ all_matches = <<>>
    /\ start_index = 0
    /\ match_ids = <<>>
    /\ idx = 0
    /\ h_result = "none"
    /\ response = "none"
    /\ h_log = <<>>
    /\ shift = 0

\* The state after construction: no request is in progress and nothing has been
\* analysed (MatchDataProcessor.processed_data is None).
Init ==
    /\ InitService
    /\ InitEngine
    /\ tz = "UTC"
    /\ raw = NoInput
    /\ matches = <<>>
    /\ df = None
    /\ out = NoOut

(* The limiter under sub-second time: concurrent flows requesting one url. *)
NextRate ==
    \/ \E p \in Flows : Call(p, "u1", TRUE)
    \/ \E p \in Flows : Wake(p)
    \/ \E p \in Flows : RespondOk(p, "d1")
    \/ \E p \in Flows : RespondError(p, "429")
    \/ Tick
    \/ TickToWake

SpecRate == Init /\ [][NextRate]_vars

(* The cache over days: one flow makes one request after the other, for two
   urls, with and without the cache, and upstream answers with any body or
   fails. *)
NextCache ==
    \/ \E u \in Urls, uc \in BOOLEAN : ncalls < MaxCacheCalls /\ Call(1, u, uc)
    \/ Wake(1)
    \/ \E d \in Values : RespondOk(1, d)
    \/ \E e \in Errors : RespondError(1, e)
    \/ TickHours
    \/ TickToWake

SpecCache == Init /\ [][NextCache]_vars

(* Two concurrent analysis requests of one worker: both flows go through the
   module-level client (get_riot_client) for the same url, and upstream answers
   each request with the document of the moment or fails it. *)
Documents == {"d1", "d2"}
NextShared ==
    \/ \E p \in Flows : Call(p, "u1", TRUE)
    \/ \E p \in Flows : Wake(p)
    \/ \E p \in Flows, d \in Documents : RespondOk(p, d)
    \/ \E p \in Flows : RespondError(p, "500")
    \/ TickToWake

SpecShared == Init /\ [][NextShared]_vars

(* One retrieval against an upstream that answers every request with a page or
   a match, or fails it. *)
HistoryErrors == {"404", "403", "transport"}
NextHistory ==
    \/ \E mm \in 0..MaxMatches : StartHistory(mm)
    \/ \E k \in 0..batch_size : ListOk(k)
    \/ \E e \in HistoryErrors : ListError(e)
    \/ DetailOk
    \/ \E e \in HistoryErrors : DetailError(e)
    \/ \E ok \in BOOLEAN : Handler(ok)

SpecHistory == Init /\ [][NextHistory]_vars

\* The same retrieval with every upstream request answered in the end:
\* requests.get is called with timeout=10 and the limiter's sleep is finite, so
\* get_match_ids_by_puuid and get_match_details return or raise.
SpecHistoryFair ==
    /\ Init
    /\ [][NextHistory]_vars
    /\ WF_vars((\E k \in 0..batch_size : ListOk(k)) \/ (\E e \in HistoryErrors : ListError(e)))
    /\ WF_vars(DetailOk \/ (\E e \in HistoryErrors : DetailError(e)))

(* One retrieval while the player goes on playing, and the analysis of what it
   returned. *)
NextShift ==
    \/ \E mm \in 1..MaxMatches : StartHistory(mm)
    \/ NewMatch
    \/ \E k \in 0..batch_size : ListOk(k)
    \/ DetailOk
    \/ Analyse

SpecShift == Init /\ [][NextShift]_vars


----------------------------------------------------------------------------
(* The analysis functions applied to inputs *)

\* The inputs of the normalizer: a match of the subject with any score line,
\* creep score and duration field.
Durations == {Absent, Null, Val(-60), Val(0), Val(90), Val(1800)}
ScoreLines == (0..MaxKills) \X (0..MaxDeaths) \X (0..MaxAssists)
ExtractInputs ==
    {Match(1, Val(1800), dur,
           Val(<<Opponent,
                 Participant(Subject, "Ahri", "MIDDLE", TRUE, kda[1], kda[2], kda[3],
                             minions, jungle, 20, 9000, 0)>>)) :
        dur \in Durations, kda \in ScoreLines, minions \in {0, 40}, jungle \in {0, 5}}

InitExtract ==
    /\ InitService
    /\ InitEngine
    /\ tz \in Zones
    /\ raw \in ExtractInputs
    /\ matches = <<>>
    /\ df = None
    /\ out = NoOut

\* extract_player_stats(raw, Subject) is called.
ExtractPlayerStats ==
    /\ raw.kind = "match"
    /\ out = NoOut
    /\ out' = [op |-> "extract_player_stats",
               res |-> extract_player_stats(tz, raw, Subject)]
    /\ UNCHANGED <<shift, tz, raw, matches, df>>
    /\ UNCHANGED <<clientVars, retrievalVars, engineVars>>

NextExtract == ExtractPlayerStats

SpecExtract == InitExtract /\ [][NextExtract]_vars


\* The inputs of process_match_history: every list of at most MaxInput matches,
\* each one a match of the subject created at one of three instants half an
\* hour apart, a match the subject did not play, or a payload without a
\* participant list (no key, or null).  The match at position i has id i.
MatchShapes == {"t1800", "t3600", "t5400", "not in match", "no list", "null list"}
ShapedMatch(id, shape) ==
    LET me == Participant(Subject, "Ahri", "MIDDLE", id % 2 = 1, 4, 2, 6, 150, 10, 20, 9000, 0)
    IN  IF shape = "not in match" THEN Match(id, Val(1800), Val(1800), Val(<<Opponent>>))
        ELSE IF shape = "no list" THEN Match(id, Val(1800), Val(1800), Absent)
        ELSE IF shape = "null list" THEN Match(id, Val(1800), Val(1800), Null)
        ELSE Match(id, Val(IF shape = "t1800" THEN 1800
                           ELSE IF shape = "t3600" THEN 3600 ELSE 5400),
                   Val(1800), Val(<<Opponent, me>>))
ProcessInputs ==
    UNION {{[i \in 1..n |-> ShapedMatch(i, f[i])] : f \in [1..n -> MatchShapes]} :
            n \in 0..MaxInput}

InitProcess ==
    /\ InitService
    /\ InitEngine
    /\ tz \in Zones
    /\ raw = NoInput
    /\ matches \in ProcessInputs
    /\ df = None
    /\ out = NoOut

\* extract_player_stats(matches[i], Subject) is called.
ExtractOne(i) ==
    /\ i \in DOMAIN matches
    /\ out = NoOut
    /\ raw' = matches[i]
    /\ out' = [op |-> "extract_player_stats",
               res |-> extract_player_stats(tz, matches[i], Subject)]
    /\ UNCHANGED <<shift, tz, matches, df>>
    /\ UNCHANGED <<clientVars, retrievalVars, engineVars>>

\* process_match_history(matches, Subject) is called: it returns the frame and
\* keeps it in processed_data (not when it is the empty frame or on a raise).
ProcessMatchHistory ==
    /\ out = NoOut
    /\ \E res \in process_match_history(tz, matches, Subject) :
          /\ out' = [op |-> "process_match_history", res |-> res]
          /\ df' = IF res.is = "value" /\ res.v # <<>>
                   THEN [kind |-> "DataFrame", rows |-> res.v]
                   ELSE df
    /\ UNCHANGED <<shift, tz, raw, matches>>
    /\ UNCHANGED <<clientVars, retrievalVars, engineVars>>

NextProcess ==
    \/ \E i \in 1..MaxInput : ExtractOne(i)
    \/ ProcessMatchHistory

SpecProcess == InitProcess /\ [][NextProcess]_vars


\* The subject's line in a won and in a lost match.
SubjectGame(champion, position, win) ==
    IF win
    THEN Participant(Subject, champion, position, TRUE, 8, 2, 6, 150, 30, 40, 20000,
                     IF champion = "Zed" THEN 1 ELSE 0)
    ELSE Participant(Subject, champion, position, FALSE, 2, 8, 4, 100, 20, 15, 9000, 0)

\* The row of the frame for match id, created at instant created.
Row(id, created, champion, position, win) ==
    derived(extract_player_stats("UTC",
                Match(id, Val(created), Val(1800),
                      Val(<<Opponent, SubjectGame(champion, position, win)>>)),
                Subject).v)

\* The inputs of the aggregations: every history of n matches played ten days
\* apart, most recent first, each a win or a loss on Ahri, a win on Zed or a
\* loss on Teemo in a queue without positions.
GameKinds == {<<"Ahri", "MIDDLE", TRUE>>, <<"Ahri", "MIDDLE", FALSE>>,
              <<"Zed", "JUNGLE", TRUE>>, <<"Teemo", "", FALSE>>}
AggregateInputs(n) ==
    {[i \in 1..n |-> Row(i, 1800 + 864000 * (n - i), f[i][1], f[i][2], f[i][3])] :
        f \in [1..n -> GameKinds]}

InitAggregate ==
    /\ InitService
    /\ InitEngine
    /\ tz = "UTC"
    /\ raw = NoInput
    /\ matches = <<>>
    /\ \E n \in 0..MaxRecords :
          df \in {[kind |-> "DataFrame", rows |-> h] : h \in AggregateInputs(n)}
    /\ out = NoOut

\* calculate_overall_stats(df)
CalculateOverallStats ==
    /\ df.kind = "DataFrame"
    /\ out = NoOut
    /\ out' = [op |-> "calculate_overall_stats", res |-> calculate_overall_stats(df.rows)]
    /\ UNCHANGED <<shift, tz, raw, matches, df>>
    /\ UNCHANGED <<clientVars, retrievalVars, engineVars>>

\* get_champion_statistics(df, min_games)
GetChampionStatistics(min_games) ==
    /\ df.kind = "DataFrame"
    /\ out = NoOut
    /\ \E res \in get_champion_statistics(df.rows, min_games) :
          out' = [op |-> "get_champion_statistics", res |-> res, min_games |-> min_games]
    /\ UNCHANGED <<shift, tz, raw, matches, df>>
    /\ UNCHANGED <<clientVars, retrievalVars, engineVars>>

\* get_role_statistics(df)
GetRoleStatistics ==
    /\ df.kind = "DataFrame"
    /\ out = NoOut
    /\ out' = [op |-> "get_role_statistics", res |-> get_role_statistics(df.rows)]
    /\ UNCHANGED <<shift, tz, raw, matches, df>>
    /\ UNCHANGED <<clientVars, retrievalVars, engineVars>>

\* get_performance_trends(df, 'month')
GetPerformanceTrends ==
    /\ df.kind = "DataFrame"
    /\ out = NoOut
    /\ out' = [op |-> "get_performance_trends", res |-> get_performance_trends(df.rows)]
    /\ UNCHANGED <<shift, tz, raw, matches, df>>
    /\ UNCHANGED <<clientVars, retrievalVars, engineVars>>

\* identify_weaknesses(df)
IdentifyWeaknesses ==
    /\ df.kind = "DataFrame"
    /\ out = NoOut
    /\ out' = [op |-> "identify_weaknesses", res |-> identify_weaknesses(df.rows)]
    /\ UNCHANGED <<shift, tz, raw, matches, df>>
    /\ UNCHANGED <<clientVars, retrievalVars, engineVars>>

\* _calculate_max_streak(df, 'win')
CalculateMaxStreak ==
    /\ df.kind = "DataFrame"
    /\ out = NoOut
    /\ out' = [op |-> "_calculate_max_streak", res |-> Val(_calculate_max_streak(df.rows, "win"))]
    /\ UNCHANGED <<shift, tz, raw, matches, df>>
    /\ UNCHANGED <<clientVars, retrievalVars, engineVars>>

\* _calculate_growth_metrics(df)
CalculateGrowthMetrics ==
    /\ df.kind = "DataFrame"
    /\ out = NoOut
    /\ out' = [op |-> "_calculate_growth_metrics", res |-> _calculate_growth_metrics(df.rows)]
    /\ UNCHANGED <<shift, tz, raw, matches, df>>
    /\ UNCHANGED <<clientVars, retrievalVars, engineVars>>

\* _get_performance_trends(df)
PerformanceTrends ==
    /\ df.kind = "DataFrame"
    /\ out = NoOut
    /\ out' = [op |-> "_get_performance_trends", res |-> _get_performance_trends(df.rows)]
    /\ UNCHANGED <<shift, tz, raw, matches, df>>
    /\ UNCHANGED <<clientVars, retrievalVars, engineVars>>

NextAggregate ==
    \/ PerformanceTrends
    \/ CalculateOverallStats
    \/ \E min_games \in 1..MaxMinGames : GetChampionStatistics(min_games)
    \/ GetRoleStatistics
    \/ GetPerformanceTrends
    \/ IdentifyWeaknesses
    \/ CalculateMaxStreak

SpecAggregate == InitAggregate /\ [][NextAggregate]_vars

\* The inputs of the streak and of the growth comparison: every history of n
\* matches played five days apart, most recent first, in which the wins are
\* the w[1] most recent matches and the matches w[2]+1 .. w[3].
SeasonInputs(n) ==
    {[i \in 1..n |-> Row(i, 1800 + 432000 * (n - i),
                         IF i % 2 = 0 THEN "Ahri" ELSE "Zed", "MIDDLE",
                         i <= w[1] \/ (w[2] < i /\ i <= w[3]))] :
        w \in {x \in (0..n) \X (0..n) \X (0..n) : x[1] <= x[2] /\ x[2] <= x[3]}}

InitSeason ==
    /\ InitService
    /\ InitEngine
    /\ tz = "UTC"
    /\ raw = NoInput
    /\ matches = <<>>
    /\ \E n \in 0..MaxSeason :
          df \in {[kind |-> "DataFrame", rows |-> h] : h \in SeasonInputs(n)}
    /\ out = NoOut

\* _analyze_recent_performance(df), which generate_comprehensive_insights
\* calls when the frame has rows.
AnalyzeRecentPerformance ==
    /\ df.kind = "DataFrame"
    /\ df.rows # <<>>
    /\ out = NoOut
    /\ out' = [op |-> "_analyze_recent_performance",
               res |-> _analyze_recent_performance(df.rows, 20)]
    /\ UNCHANGED <<shift, tz, raw, matches, df>>
    /\ UNCHANGED <<clientVars, retrievalVars, engineVars>>

NextSeason ==
    \/ AnalyzeRecentPerformance
    \/ CalculateMaxStreak
    \/ CalculateGrowthMetrics

SpecSeason == InitSeason /\ [][NextSeason]_vars

\* The subject's score lines the threshold rules are tried on: win, kills,
\* deaths, assists, minions, vision score, penta kills.  A match lasts thirty
\* minutes, so that 180 minions are 6.0 a minute; every line has a whole kda
\* and a whole cs per minute.
ScoreProfiles ==
    {<<TRUE, 4, 2, 2, 180, 35, 0>>,
     <<FALSE, 4, 6, 2, 150, 30, 0>>,
     <<FALSE, 4, 7, 3, 120, 25, 0>>,
     <<FALSE, 5, 8, 3, 120, 20, 0>>,
     <<FALSE, 6, 9, 3, 90, 15, 0>>,
     <<FALSE, 5, 5, 0, 150, 30, 1>>,
     <<TRUE, 8, 2, 6, 210, 40, 1>>}

\* The row of match id for the score line.
ProfileRow(id, created, line) ==
    derived(extract_player_stats("UTC",
                Match(id, Val(created), Val(1800),
                      Val(<<Opponent,
                            Participant(Subject, "Ahri", "MIDDLE", line[1], line[2], line[3], line[4], line[5], 0, line[6], 15000, line[7])>>)),
                Subject).v)

\* Every history of n matches a day apart, most recent first, of these lines.
ProfileInputs(n) ==
    {[i \in 1..n |-> ProfileRow(i, 1800 + 86400 * (n - i), f[i])] :
        f \in [1..n -> ScoreProfiles]}

\* Every history of n matches a day apart of which the w most recent were won
\* with the first line and the others lost with the second.
CareerInputs(n) ==
    {[i \in 1..n |-> ProfileRow(i, 1800 + 86400 * (n - i),
                                IF i <= w THEN <<TRUE, 4, 2, 2, 180, 35, 0>>
                                          ELSE <<FALSE, 4, 6, 2, 150, 30, 0>>)] :
        w \in 0..n}

InitThreshold ==
    /\ InitService
    /\ InitEngine
    /\ tz = "UTC"
    /\ raw = NoInput
    /\ matches = <<>>
    /\ \/ \E n \in 1..MaxProfile :
              df \in {[kind |-> "DataFrame", rows |-> h] : h \in ProfileInputs(n)}
       \/ \E n \in (MaxCareer - 1)..MaxCareer :
              df \in {[kind |-> "DataFrame", rows |-> h] : h \in CareerInputs(n)}
    /\ out = NoOut

\* _identify_strengths(df)
IdentifyStrengths ==
    /\ df.kind = "DataFrame"
    /\ out = NoOut
    /\ out' = [op |-> "_identify_strengths", res |-> _identify_strengths(df.rows)]
    /\ UNCHANGED <<shift, tz, raw, matches, df>>
    /\ UNCHANGED <<clientVars, retrievalVars, engineVars>>

NextThreshold ==
    \/ IdentifyWeaknesses
    \/ IdentifyStrengths

SpecThreshold == InitThreshold /\ [][NextThreshold]_vars

----------------------------------------------------------------------------
(* The analysis requests in the engine.  A request flow runs until it blocks in
   invoke_model, where another flow may run: the worker's flows share the
   InsightsEngine of src/app.py, and with it the processor and the
   collaborator. *)

\* The BedrockService the constructor may leave: enabled, switched off by
\* ENABLE_BEDROCK, or without a client after boto3.client raised.
BedrockConfigs ==
    {[enabled |-> TRUE, client |-> TRUE],
     [enabled |-> FALSE, client |-> TRUE],
     [enabled |-> FALSE, client |-> FALSE]}

\* generate_text goes to the network.
Blocks(service) == service.enabled /\ service.client
\* The reply argument of a call that does not go to the network.
NoReply == [kind |-> "body", exc |-> "", json |-> FALSE, text |-> <<>>]

\* The history of the player flow p asks for: three won matches for the first,
\* three lost ones with many deaths for the second.
HistoryOf(p) ==
    [i \in 1..3 |-> ProfileRow(i, 1800 + 86400 * (3 - i),
                               IF p = 1 THEN <<TRUE, 4, 2, 2, 180, 35, 0>>
                                        ELSE <<FALSE, 6, 9, 3, 90, 15, 0>>)]
\* The histories of a single request: these and one of a single won match.
ReportInputs ==
    {HistoryOf(1), HistoryOf(2), <<ProfileRow(1, 1800, <<TRUE, 4, 2, 2, 180, 35, 0>>)>>}

\* The locals of a request that has processed its matches into frame.
Entered(kind, frame) ==
    [pc |-> "entered", kind |-> kind, frame |-> frame,
     insights |-> statistical_sections(frame),
     coaching_tips |-> <<>>, ai_summary |-> Absent, sections |-> Absent,
     creative_summary |-> Absent, motivational_message |-> Absent, asked |-> <<>>]

\* generate_comprehensive_insights from the return of _generate_coaching_tips on.
WithTips(local, tips) ==
    IF tips.is = "raise"
    THEN [local EXCEPT !.pc = "raised"]
    ELSE [local EXCEPT !.pc = "summary", !.coaching_tips = tips.v]

\* generate_year_end_report from line 107 on: the frame is read from
\* processor.processed_data.
WithSections(local, processed_data) ==
    [local EXCEPT !.pc = "creative",
                  !.sections = Val(year_end_sections(processed_data.rows))]

\* The bundle of a request when no call goes to the network: the engine skips
\* the collaborator when it is not enabled, and generate_text gives the
\* fallback text when there is no client.  The report's sections are of the
\* frame the same run has just left in processor.processed_data.
Unaided(kind, frame, service) ==
    [pc |-> "done", kind |-> kind, frame |-> frame,
     insights |-> statistical_sections(frame),
     coaching_tips |-> _generate_coaching_tips(frame, service, NoReply).v,
     ai_summary |-> IF service.enabled
                    THEN Val(_generate_ai_summary(service, NoReply).v) ELSE Absent,
     sections |-> IF kind = "year_end" THEN Val(year_end_sections(frame)) ELSE Absent,
     creative_summary |-> IF kind = "year_end" /\ service.enabled
                          THEN Val(generate_player_summary(service, NoReply).v)
                          ELSE Absent,
     motivational_message |-> IF kind = "year_end" /\ service.enabled
                              THEN Val(generate_motivational_message(service, NoReply).v)
                              ELSE Absent,
     asked |-> <<>>]

\* The request handler of flow p calls generate_comprehensive_insights (kind
\* "insights") or generate_year_end_report (kind "year_end") with matches that
\* process_match_history turns into a frame with rows; the flow runs up to its
\* first call of invoke_model, or to the end when there is none.
Request(p, kind, frame) ==
    /\ rq[p].pc = "idle"
    /\ df' = [kind |-> "DataFrame", rows |-> frame]
    /\ rq' = [rq EXCEPT ![p] = IF Blocks(bedrock)
                               THEN [Entered(kind, frame) EXCEPT !.pc = "tips"]
                               ELSE Unaided(kind, frame, bedrock)]
    /\ UNCHANGED <<shift, tz, raw, matches, out, bedrock>>
    /\ UNCHANGED <<clientVars, retrievalVars>>

\* invoke_model answers the call of generate_coaching_tips.
TipsReply(p, reply) ==
    /\ rq[p].pc = "tips"
    /\ rq' = [rq EXCEPT ![p] =
                [WithTips(rq[p], _generate_coaching_tips(rq[p].frame, bedrock, reply))
                    EXCEPT !.asked = Append(rq[p].asked, reply)]]
    /\ UNCHANGED <<analysisVars, bedrock>>
    /\ UNCHANGED <<clientVars, retrievalVars>>

\* invoke_model answers the call of _generate_ai_summary: the insights are
\* complete, and generate_year_end_report goes on to its own sections.
SummaryReply(p, reply) ==
    /\ rq[p].pc = "summary"
    /\ LET summed == [rq[p] EXCEPT
                        !.ai_summary = Val(_generate_ai_summary(bedrock, reply).v),
                        !.asked = Append(rq[p].asked, reply)]
       IN  rq' = [rq EXCEPT ![p] =
                    IF summed.kind = "year_end"
                    THEN WithSections(summed, df)
                    ELSE [summed EXCEPT !.pc = "done"]]
    /\ UNCHANGED <<analysisVars, bedrock>>
    /\ UNCHANGED <<clientVars, retrievalVars>>

\* invoke_model answers the call of generate_player_summary of the report.
CreativeReply(p, reply) ==
    /\ rq[p].pc = "creative"
    /\ LET summary == generate_player_summary(bedrock, reply)
       IN  rq' = [rq EXCEPT ![p] =
                    IF summary.is = "raise"
                    THEN [rq[p] EXCEPT !.pc = "raised"]
                    ELSE [rq[p] EXCEPT !.pc = "motivation",
                                       !.creative_summary = Val(summary.v),
                                       !.asked = Append(rq[p].asked, reply)]]
    /\ UNCHANGED <<analysisVars, bedrock>>
    /\ UNCHANGED <<clientVars, retrievalVars>>

\* invoke_model answers the call of generate_motivational_message.
MotivationReply(p, reply) ==
    /\ rq[p].pc = "motivation"
    /\ LET message == generate_motivational_message(bedrock, reply)
       IN  rq' = [rq EXCEPT ![p] =
                    IF message.is = "raise"
                    THEN [rq[p] EXCEPT !.pc = "raised"]
                    ELSE [rq[p] EXCEPT !.pc = "done",
                                       !.motivational_message = Val(message.v),
                                       !.asked = Append(rq[p].asked, reply)]]
    /\ UNCHANGED <<analysisVars, bedrock>>
    /\ UNCHANGED <<clientVars, retrievalVars>>

\* One request, whatever the collaborator is and does.
InitNarrative ==
    /\ InitService
    /\ tz = "UTC"
    /\ raw = NoInput
    /\ matches = <<>>
    /\ df = None
    /\ out = NoOut
    /\ bedrock \in BedrockConfigs
    /\ rq = [p \in Flows |-> NoRequest]

NextNarrative ==
    \/ \E kind \in {"insights", "year_end"}, frame \in ReportInputs : Request(1, kind, frame)
    \/ \E reply \in Replies : TipsReply(1, reply)
    \/ \E reply \in Replies : SummaryReply(1, reply)
    \/ \E reply \in Replies : CreativeReply(1, reply)
    \/ \E reply \in Replies : MotivationReply(1, reply)

SpecNarrative == InitNarrative /\ [][NextNarrative]_vars

\* Two requests of one worker: a year-end report for one player and the
\* insights of another.
NextReport ==
    \/ Request(1, "year_end", HistoryOf(1))
    \/ Request(2, "insights", HistoryOf(2))
    \/ \E p \in Flows, reply \in Replies : TipsReply(p, reply)
    \/ \E p \in Flows, reply \in Replies : SummaryReply(p, reply)
    \/ \E p \in Flows, reply \in Replies : CreativeReply(p, reply)
    \/ \E p \in Flows, reply \in Replies : MotivationReply(p, reply)

SpecReport == InitNarrative /\ [][NextReport]_vars

----------------------------------------------------------------------------
(* Rate limiting *)

\* Number of runs of the body admitted in the interval [t0, t0 + period).
AdmittedIn(t0, period) ==
    Cardinality({i \in DOMAIN admitted :
                    admitted[i][2] >= t0 /\ admitted[i][2] < t0 + period})

\* C1: in every rolling interval of one second at most RIOT_RATE_LIMIT_PER_SECOND
\* calls are admitted to the body of _make_request, and in every rolling interval
\* of sixty seconds at most RIOT_RATE_LIMIT_PER_MINUTE.  (An interval holding the
\* most admissions can be taken to start at an admission.)
C1_RollingWindowCeilings ==
    \A i \in DOMAIN admitted :
        /\ AdmittedIn(admitted[i][2], Period1) <= RIOT_RATE_LIMIT_PER_SECOND
        /\ AdmittedIn(admitted[i][2], Period60) <= RIOT_RATE_LIMIT_PER_MINUTE

\* C10: upstream requests are issued once each and in the order in which the
\* calls were made: a later call never overtakes an earlier, suspended one.
C10_IssuedInCallOrder ==
    \A i, j \in DOMAIN issued : i < j => issued[i] < issued[j]

\* C11: concurrent requests access the cache of one client under mutual
\* exclusion, so that no interleaving loses a cache update: a call that has
\* looked the url up and found nothing to return stores its response over no
\* entry that another call stored in the meantime.
C11_StoreStep(p) ==
    pc[p] = "network" /\ req[p].use_cache /\ pc'[p] = "idle" /\ ret'[p].kind = "value"
        => cache[req[p].url] = NoEntry
C11_NoLostCacheUpdate == [][\A p \in Flows : C11_StoreStep(p)]_vars

\* Flow p takes a step of its _make_request call.
StepOf(p) ==
    <<pc[p], wake_at[p], ret[p], call_no[p]>>' # <<pc[p], wake_at[p], ret[p], call_no[p]>>
\* The last _make_request call of flow p has returned / has raised RiotAPIError.
Answered(p) == pc[p] = "idle" /\ ret[p].kind = "value"
Failed(p)   == pc[p] = "idle" /\ ret[p].kind = "error"
\* The cache holds an entry for url u that has not expired.
Fresh(u) == cache[u] # NoEntry /\ now < cache_expiry[u]

\* C28: every pass of a call through _make_request counts against the
\* per-second budget, and against the per-minute budget unless the per-second
\* limiter has refused it, before the cache is looked at: the step that runs
\* the body (the lookup, and the return of a cached response) adds one to both
\* counters within their ceilings, and a step that the limiter refuses puts the
\* call to sleep without a lookup, whatever the cache holds.
Counted(lim, after, calls) ==
    /\ after.num_calls = (IF after.last_reset = lim.last_reset
                          THEN lim.num_calls + 1 ELSE 1)
    /\ after.num_calls <= calls
C28_BodyStep ==
    admitted' # admitted =>
        /\ Counted(sec_limit, sec_limit', RIOT_RATE_LIMIT_PER_SECOND)
        /\ Counted(min_limit, min_limit', RIOT_RATE_LIMIT_PER_MINUTE)
C28_HitStep(p) ==
    ret'[p] # ret[p] /\ Answered(p)' /\ ret'[p].source = "cache"
        => admitted' # admitted
C28_RefusedStep(p) ==
    StepOf(p) /\ pc'[p] = "sleeping" =>
        /\ UNCHANGED cacheVars
        /\ admitted' = admitted
        /\ ~look'[p].done
        /\ sec_limit'.num_calls > sec_limit.num_calls \/ sec_limit'.last_reset = now
C28_LimiterBeforeCache ==
    [][C28_BodyStep /\ \A p \in Flows : C28_HitStep(p) /\ C28_RefusedStep(p)]_vars

\* C28's case: one call was answered from the cache, and a later call for the
\* same url is asleep in the limiter although the cache still holds the answer.
C28_Witness ==
    \E p, q \in Flows :
        /\ Answered(p) /\ ret[p].source = "cache"
        /\ pc[q] = "sleeping"
        /\ req[q].use_cache
        /\ cache[req[q].url] # NoEntry
        /\ now < cache_expiry[req[q].url]
        /\ Truthy(cache[req[q].url])

----------------------------------------------------------------------------
(* The cache *)

\* The lookup of flow p's current call found an entry, before / after its expiry.
FoundFresh(p)   == look[p].done /\ look[p].found /\ look[p].at < look[p].expiry
FoundExpired(p) == look[p].done /\ look[p].found /\ look[p].at > look[p].expiry

\* C2: a cached call whose lookup finds an entry strictly before its expiry
\* returns the stored response, whatever it is, and calls requests.get never.
C2_HitBeforeExpiry ==
    \A p \in Flows :
        FoundFresh(p) =>
            /\ pc[p] = "idle"
            /\ ret[p] = [kind |-> "value", data |-> look[p].value, source |-> "cache"]
            /\ net_calls[p] = 0

\* C3: a cached call whose lookup finds an entry strictly after its expiry removes
\* the entry (value and expiry) in the lookup, calls requests.get exactly once and
\* never returns the cached response; when the request succeeds the response is
\* stored and expires cache_hours after the time of the store.
C3_LookupStep(p) ==
    ~look[p].done /\ FoundExpired(p)' =>
        /\ cache'[req'[p].url] = NoEntry
        /\ cache_expiry'[req'[p].url] = NoEntry
        /\ pc'[p] = "network"
C3_ReturnStep(p) ==
    FoundExpired(p) /\ pc[p] = "network" /\ pc'[p] = "idle" /\ ret'[p].kind = "value" =>
        /\ ret'[p].source = "network"
        /\ cache'[req[p].url] = ret'[p].data
        /\ cache_expiry'[req[p].url] = now' + cache_hours * TicksPerHour
C3_State(p) ==
    FoundExpired(p) =>
        /\ net_calls[p] = 1
        /\ ret[p].kind = "value" => ret[p].source = "network"
C3_ExpiredEntryRefetched ==
    /\ [][\A p \in Flows : C3_LookupStep(p) /\ C3_ReturnStep(p)]_vars
    /\ [](\A p \in Flows : C3_State(p))

\* C3's case: a call found an expired entry and has returned the fresh response.
C3_Witness ==
    \E p \in Flows :
        /\ FoundExpired(p)
        /\ pc[p] = "idle"
        /\ ret[p].kind = "value"
        /\ cache[req[p].url] = ret[p].data

\* C26: a call with use_cache=False leaves the cache as it is at every step (no
\* entry is looked up, added, replaced or evicted), and when it returns it has
\* called requests.get once and returns that response, whatever the cache holds
\* for the url.
C26_BypassStep(p) ==
    StepOf(p) /\ req'[p].url # "none" /\ ~req'[p].use_cache
        => /\ UNCHANGED cacheVars
           /\ ~look'[p].done
C26_BypassState(p) ==
    req[p].url # "none" /\ ~req[p].use_cache =>
        /\ Answered(p) => ret[p].source = "network"
        /\ Answered(p) \/ Failed(p) => net_calls[p] = 1
C26_BypassLeavesCacheAlone ==
    /\ [][\A p \in Flows : C26_BypassStep(p)]_vars
    /\ [](\A p \in Flows : C26_BypassState(p))

\* C26's case: a call with use_cache=False has returned the response of the
\* network while the cache holds another, unexpired response for the url.
C26_Witness ==
    /\ Answered(1)
    /\ ~req[1].use_cache
    /\ Fresh(req[1].url)
    /\ Truthy(cache[req[1].url])
    /\ ret[1].data # cache[req[1].url]

\* The time at which the body of flow p's current call ran.
BodyTime(p) ==
    LET i == CHOOSE i \in DOMAIN admitted : admitted[i][1] = call_no[p]
    IN  admitted[i][2]

\* C27 as stated: after a call that ended in an error the cache holds no entry
\* for the url unless an unexpired one was there when the call was made.
C27_NoEntryAfterError ==
    \A p \in Flows :
        Failed(p) /\ cache[req[p].url] # NoEntry
            => BodyTime(p) < cache_expiry[req[p].url]

\* C27: a call that ends in an error stores nothing.  The step that raises
\* leaves the cache as it is, no step of the call touches the entry of another
\* url, and after the call the cache holds an entry for the url only if one was
\* there before: one that the lookup found unexpired (and did not return,
\* being an empty document), or, when the call was made with use_cache=False,
\* any entry, an expired one included.
C27_RaiseStep(p) ==
    pc[p] = "network" /\ Failed(p)' => UNCHANGED cacheVars
C27_OtherUrls(p) ==
    StepOf(p) =>
        \A u \in Urls \ {req'[p].url} :
            cache'[u] = cache[u] /\ cache_expiry'[u] = cache_expiry[u]
C27_State(p) ==
    Failed(p) /\ req[p].use_cache /\ cache[req[p].url] # NoEntry =>
        /\ look[p].found
        /\ look[p].at < look[p].expiry
        /\ cache[req[p].url] = look[p].value
        /\ cache_expiry[req[p].url] = look[p].expiry
        /\ ~Truthy(look[p].value)
C27_FailedCallStoresNothing ==
    /\ [][\A p \in Flows : C27_RaiseStep(p) /\ C27_OtherUrls(p)]_vars
    /\ [](\A p \in Flows : C27_State(p))

\* C27's case: a cached call found an expired entry and failed; the entry is
\* gone and nothing took its place, while the other url keeps its entry.
C27_Witness ==
    /\ Failed(1)
    /\ req[1].use_cache
    /\ FoundExpired(1)
    /\ cache[req[1].url] = NoEntry
    /\ \E u \in Urls \ {req[1].url} : cache[u] # NoEntry

----------------------------------------------------------------------------
(* The record normalizer *)

Abs(x) == IF x < 0 THEN -x ELSE x
\* The subject's entry in the participant list of match payload m.
SubjectIn(m) == m.participants.v[FindParticipant(m.participants.v, Subject)]
\* extract_player_stats was applied to raw and returned a record.
Extracted == out.op = "extract_player_stats" /\ out.res.is = "value"

\* C14 as stated: the KDA of the record is kills + assists when deaths = 0 and
\* otherwise the quotient (kills + assists) / deaths itself.
C14_KdaIsQuotient ==
    Extracted =>
        LET p == SubjectIn(raw)
        IN  IF p.deaths = 0
            THEN out.res.v.kda = 100 * (p.kills + p.assists)
            ELSE out.res.v.kda * p.deaths = 100 * (p.kills + p.assists)

\* C14, amended: for non-negative kills, deaths and assists the KDA is
\* kills + assists when deaths = 0 (and the record is made: no division fault),
\* and otherwise (kills + assists) / deaths rounded to two decimals, that is,
\* the multiple of 0.01 within 0.005 of the quotient; (5,2,3), (0,5,1) and
\* (10,0,2) give 4.0, 0.2 and 12.0.
C14_KdaRoundedQuotient ==
    out.op = "extract_player_stats" /\ raw.gameDuration.is # "null" =>
        LET p == SubjectIn(raw)
            s == <<p.kills, p.deaths, p.assists>>
        IN  /\ out.res.is = "value"
            /\ IF p.deaths = 0
               THEN out.res.v.kda = 100 * (p.kills + p.assists)
               ELSE 2 * Abs(out.res.v.kda * p.deaths - 100 * (p.kills + p.assists))
                       <= p.deaths
            /\ s = <<5, 2, 3>> => out.res.v.kda = 400
            /\ s = <<0, 5, 1>> => out.res.v.kda = 20
            /\ s = <<10, 0, 2>> => out.res.v.kda = 1200

\* C14's cases: a record made with no deaths and kills or assists, and one whose
\* quotient is no multiple of 0.01.
C14_Witness ==
    /\ Extracted
    /\ LET p == SubjectIn(raw)
       IN  \/ p.deaths = 0 /\ out.res.v.kda > 0
           \/ p.deaths > 0 /\ (100 * (p.kills + p.assists)) % p.deaths # 0

\* C15: the CS-per-minute of the record is 0 when the match's duration is
\* missing, zero or negative, and otherwise (minion kills + neutral-monster
\* kills) / (duration / 60), to the two decimals the record keeps.
C15_CsPerMinute ==
    Extracted =>
        LET p == SubjectIn(raw)
            total == p.totalMinionsKilled + p.neutralMinionsKilled
            dur == raw.gameDuration
            cs == out.res.v.cs_per_minute
        IN  IF dur.is = "absent" THEN cs = 0
            ELSE IF dur.v <= 0 THEN cs = 0
            ELSE 2 * Abs(cs * dur.v - 6000 * total) <= dur.v

\* The subject is among the participants of match payload m.
HasSubject(m) ==
    /\ m.participants.is = "value"
    /\ \E i \in DOMAIN m.participants.v : m.participants.v[i].puuid = Subject
Processed == out.op = "process_match_history"
\* The positions of matches that hold a match of the subject.
OwnMatches == {i \in DOMAIN matches : HasSubject(matches[i])}

\* C13: whatever the order of the input, the history process_match_history
\* returns lists the matches from the most recently created to the oldest, and
\* holds one record for each input match the subject played and no other.
C13_NewestFirstOnePerMatch ==
    Processed =>
        /\ out.res.is = "value"
        /\ \A i, j \in DOMAIN out.res.v :
              i < j => out.res.v[i].game_creation.v >= out.res.v[j].game_creation.v
        /\ Len(out.res.v) = Cardinality(OwnMatches)
        /\ \A i \in OwnMatches :
              \E r \in DOMAIN out.res.v : out.res.v[r].match_id = matches[i].matchId

\* C16: extract_player_stats raises nothing and returns None for a match in which
\* no participant is the subject, a match without participant list included;
\* process_match_history raises nothing, leaves those matches out and returns
\* for every other match the record made of that match alone.
C16_AbsentSubjectSkipped ==
    /\ out.op = "extract_player_stats" =>
          /\ out.res.is \in {"null", "value"}
          /\ ~HasSubject(raw) => out.res = Null
    /\ Processed =>
          /\ out.res.is = "value"
          /\ Len(out.res.v) = Cardinality(OwnMatches)
          /\ \A r \in DOMAIN out.res.v : \E i \in OwnMatches :
                /\ out.res.v[r].match_id = matches[i].matchId
                /\ out.res.v[r].champion_name = SubjectIn(matches[i]).championName
                /\ out.res.v[r].win = SubjectIn(matches[i]).win
                /\ out.res.v[r].game_creation = matches[i].gameCreation
          /\ \A i \in OwnMatches :
                \E r \in DOMAIN out.res.v : out.res.v[r].match_id = matches[i].matchId

\* C16's case: the input held a match the subject did not play, a payload with
\* no participant list and a match of the subject after them; the history
\* returned holds the record of that match.
C16_Witness ==
    /\ Processed
    /\ \E i, j, k \in DOMAIN matches :
          /\ i < k /\ j < k
          /\ matches[i].participants.is = "value" /\ ~HasSubject(matches[i])
          /\ matches[j].participants.is # "value"
          /\ HasSubject(matches[k])
          /\ \E r \in DOMAIN out.res.v : out.res.v[r].match_id = matches[k].matchId

\* C12: the records made of what get_full_match_history returned hold at most
\* one record of any match id, however upstream answers.
C12_UniqueMatchIds ==
    Processed /\ out.res.is = "value" =>
        \A i, j \in DOMAIN out.res.v :
            i # j => out.res.v[i].match_id # out.res.v[j].match_id

----------------------------------------------------------------------------
(* The aggregations *)

Applied(op) == out # NoOut /\ out.op = op
\* The rows of the frame that are of the champion.
RowsOf(champion) == {i \in DOMAIN df.rows : df.rows[i].champion_name = champion}
WonRowsOf(champion) == {i \in RowsOf(champion) : df.rows[i].win}

\* C17: applied to the empty frame, calculate_overall_stats,
\* get_champion_statistics, get_role_statistics, get_performance_trends and
\* identify_weaknesses each return their empty result (the empty dict or the
\* empty frame) and none of them raises.
C17_EmptyAggregates ==
    /\ Applied("calculate_overall_stats") /\ df.rows = <<>> => out.res = Val(EmptyDict)
    /\ Applied("get_champion_statistics") /\ df.rows = <<>> => out.res = Val(EmptyFrame)
    /\ Applied("get_role_statistics") /\ df.rows = <<>> => out.res = Val(EmptyDict)
    /\ Applied("get_performance_trends") /\ df.rows = <<>> => out.res = Val(EmptyFrame)
    /\ Applied("identify_weaknesses") /\ df.rows = <<>> => out.res = Val(EmptyDict)

C17_Witness ==
    /\ Applied("calculate_overall_stats")
    /\ df.rows = <<>>
    /\ out.res.is = "value"

\* C18: get_champion_statistics(df, min_games) returns one row for each
\* champion with at least min_games rows in df and for no other, its games the
\* number of the champion's rows and its wins the number of them won, the rows
\* in descending order of games.
C18_ChampionsWithEnoughGames ==
    Applied("get_champion_statistics") =>
        /\ out.res.is = "value"
        /\ LET stats == out.res.v
           IN  /\ {stats[r].champion_name : r \in DOMAIN stats} =
                      {c \in {df.rows[i].champion_name : i \in DOMAIN df.rows} :
                          Cardinality(RowsOf(c)) >= out.min_games}
               /\ \A r, q \in DOMAIN stats :
                      r # q => stats[r].champion_name # stats[q].champion_name
               /\ \A r \in DOMAIN stats :
                      /\ stats[r].games = Cardinality(RowsOf(stats[r].champion_name))
                      /\ stats[r].wins = Cardinality(WonRowsOf(stats[r].champion_name))
               /\ \A r, q \in DOMAIN stats : r < q => stats[r].games >= stats[q].games

\* Zed was played twice and won twice and is left out for a min_games of 3,
\* Ahri was played three times and is kept.
C18_Witness ==
    /\ Applied("get_champion_statistics")
    /\ out.min_games = 3
    /\ Cardinality(RowsOf("Zed")) = 2
    /\ Cardinality(WonRowsOf("Zed")) = 2
    /\ Cardinality(RowsOf("Ahri")) = 3
    /\ out.res.is = "value"
    /\ {out.res.v[r].champion_name : r \in DOMAIN out.res.v} = {"Ahri"}

\* The deaths of the frame's rows, summed.
TotalDeaths == sum(df.rows, "deaths")

\* C21: identify_weaknesses reports high_deaths exactly when the mean of deaths
\* is greater than 6 (not at 6), with severity 'high' when the mean is greater
\* than 8 and 'medium' otherwise (at 8 too).
C21_HighDeaths ==
    Applied("identify_weaknesses") /\ df.rows # <<>> =>
        /\ out.res.is = "value"
        /\ "high_deaths" \in DOMAIN out.res.v <=> TotalDeaths > 6 * Len(df.rows)
        /\ "high_deaths" \in DOMAIN out.res.v =>
              /\ out.res.v["high_deaths"].severity = "high" <=> TotalDeaths > 8 * Len(df.rows)
              /\ out.res.v["high_deaths"].severity = "medium" <=> TotalDeaths <= 8 * Len(df.rows)

\* A history with a mean of exactly 8 deaths, not all of 8: medium.
C21_Witness ==
    /\ Applied("identify_weaknesses")
    /\ TotalDeaths = 8 * Len(df.rows)
    /\ \E i \in DOMAIN df.rows : df.rows[i].deaths = 9
    /\ out.res.is = "value"
    /\ "high_deaths" \in DOMAIN out.res.v
    /\ out.res.v["high_deaths"].severity = "medium"

\* The statistics of the frame, and the strengths reported for it.
Overall == calculate_overall_stats(df.rows).v
Strengths == DOMAIN out.res.v

\* C25: _identify_strengths reports the win rate when it is at least 52, the
\* kda when the mean kda is at least 3.0, the vision when the mean vision score
\* is at least 35, the cs when the mean cs per minute is at least 6 and the
\* penta kills when there is one, each whatever the others, the statistics
\* being those of calculate_overall_stats.
C25_StrengthThresholds ==
    Applied("_identify_strengths") /\ df.rows # <<>> =>
        /\ out.res.is = "value"
        /\ "win_rate" \in Strengths <=>
              RoundDiv(10000 * Cardinality({i \in DOMAIN df.rows : df.rows[i].win}),
                       Len(df.rows)) >= 5200
        /\ "kda" \in Strengths <=> Overall.avg_kda >= 300
        /\ "vision" \in Strengths <=> Overall.avg_vision_score >= 350
        /\ "cs" \in Strengths <=> Overall.avg_cs_per_minute >= 600
        /\ "pentakills" \in Strengths <=> \E i \in DOMAIN df.rows : df.rows[i].penta_kills > 0

\* Thirteen wins in twenty-five matches: a win rate of exactly 52 is a
\* strength, and the only one.
C25_Witness ==
    /\ Applied("_identify_strengths")
    /\ Len(df.rows) = 25
    /\ Cardinality({i \in DOMAIN df.rows : df.rows[i].win}) = 13
    /\ out.res.is = "value"
    /\ Strengths = {"win_rate"}
    /\ out.res.v["win_rate"] = 5200

\* C22: the label of the win rate, and that of the kda, is 'improving' only
\* when the most recent month's value is greater than that of the month before
\* it, 'declining' only when it is less, and 'stable' when there are fewer than
\* two months; two months of equal value are labelled neither improving nor
\* declining.
C22_TrendLabels ==
    Applied("_get_performance_trends") =>
        LET monthly == out.res.v.monthly_trends
            last == Len(monthly)
            Judged(label, recent, previous) ==
                /\ label = "improving" => recent > previous
                /\ label = "declining" => recent < previous
        IN  /\ last < 2 => out.res.v.win_rate_trend = "stable" /\ out.res.v.kda_trend = "stable"
            /\ last >= 2 =>
                  /\ Judged(out.res.v.win_rate_trend,
                            monthly[last].win_rate, monthly[last - 1].win_rate)
                  /\ Judged(out.res.v.kda_trend,
                            monthly[last].avg_kda, monthly[last - 1].avg_kda)

----------------------------------------------------------------------------
(* Streak and growth *)

\* The win flags of the frame from the oldest match to the newest: the frame
\* holds the newest first.
Chronological ==
    [i \in 1..Len(df.rows) |-> df.rows[Len(df.rows) + 1 - i].win]
\* The length of the longest run of consecutive TRUE in flags.
LongestRun(flags) ==
    LET runs == {<<a, b>> \in (DOMAIN flags) \X (DOMAIN flags) :
                    a <= b /\ \A i \in a..b : flags[i]}
        lengths == {0} \cup {r[2] - r[1] + 1 : r \in runs}
    IN  CHOOSE l \in lengths : \A m \in lengths : m <= l

\* C19: _calculate_max_streak(df, 'win') is the length of the longest run of
\* consecutive wins of the history read from the oldest match to the newest.
C19_LongestChronologicalRun ==
    Applied("_calculate_max_streak") =>
        out.res = Val(LongestRun(Chronological))

\* The history won, won, won, won, won, lost, won from the oldest match on: 5.
C19_Witness ==
    /\ Applied("_calculate_max_streak")
    /\ Chronological = <<TRUE, TRUE, TRUE, TRUE, TRUE, FALSE, TRUE>>
    /\ out.res = Val(5)

\* The rows lo .. hi of the frame, and their win rate in hundredths of a percent.
Part(lo, hi) == [i \in 1..(hi - lo + 1) |-> df.rows[lo + i - 1]]
WinRateOf(lo, hi) ==
    RoundDiv(10000 * Cardinality({i \in lo..hi : df.rows[i].win}), hi - lo + 1)

\* C20: _calculate_growth_metrics(df) is the empty dict when df has fewer than
\* 20 rows; with n >= 20 rows it holds the five changes, each the statistic of
\* the later half (the first n div 2 rows, the frame holding the newest match
\* first) minus that of the earlier half (the remaining rows), and the two
\* halves make up the frame.
C20_GrowthHalves ==
    Applied("_calculate_growth_metrics") =>
        LET n == Len(df.rows)
            half == n \div 2
        IN  /\ out.res.is = "value"
            /\ n < 20 => out.res.v = EmptyDict
            /\ n >= 20 =>
                LET later == calculate_overall_stats(Part(1, half)).v
                    earlier == calculate_overall_stats(Part(half + 1, n)).v
                    growth == out.res.v
                IN  /\ Part(1, half) \o Part(half + 1, n) = df.rows
                    /\ DOMAIN growth = {"win_rate_change", "kda_change", "damage_change",
                                        "cs_change", "vision_change"}
                    /\ growth.win_rate_change = WinRateOf(1, half) - WinRateOf(half + 1, n)
                    /\ growth.kda_change = later.avg_kda - earlier.avg_kda
                    /\ growth.damage_change =
                           later.avg_damage_dealt - earlier.avg_damage_dealt
                    /\ growth.cs_change =
                           later.avg_cs_per_minute - earlier.avg_cs_per_minute
                    /\ growth.vision_change =
                           later.avg_vision_score - earlier.avg_vision_score

\* Twenty matches of which the ten most recent were won more often than the
\* ten before them: the win rate has risen.
C20_Witness ==
    /\ Applied("_calculate_growth_metrics")
    /\ Len(df.rows) = 20
    /\ out.res.is = "value"
    /\ out.res.v # EmptyDict
    /\ out.res.v.win_rate_change > 0

----------------------------------------------------------------------------
(* The engine and its collaborator *)

\* The reply gives generate_text no text: invoke_model raised, or the body is
\* not JSON.
NoText(reply) == reply.kind = "raise" \/ ~reply.json
\* The reply gives generate_coaching_tips no tip: no text, or a text without a
\* numbered line.
NoTips(reply) ==
    NoText(reply) \/ \A i \in DOMAIN reply.text : ~reply.text[i].numbered
\* The tips without the collaborator: the suggestions of the weaknesses, and
\* when it was not asked the word on the best champion.
FallbackTips(frame, asked) ==
    LET weaknesses == identify_weaknesses(frame).v
        best == identify_best_champions(frame, 3)
        word == IF best = <<>> THEN <<>>
                ELSE <<[text |-> "Continue mastering", numbered |-> FALSE,
                        about |-> best[1].champion]>>
    IN  IF asked /\ Suggestions(weaknesses) # <<>>
        THEN head(Suggestions(weaknesses), 5)
        ELSE head(Suggestions(weaknesses) \o word, 5)

C30_SectionsOfOwnHistory ==
    \A p \in Flows :
        rq[p].pc = "done" /\ rq[p].kind = "year_end"
            => rq[p].sections = Val(year_end_sections(rq[p].frame))

----------------------------------------------------------------------------
(* Paginated retrieval *)

IsPage(e)     == e.op = "ids" /\ e.res = "ok"
IsShort(e)    == IsPage(e) /\ e.n < batch_size
IsDetail(e)   == e.op = "detail"
Returned      == h_pc \in {"returned", "done"}
\* The page request that listed the id requested by entry i of the log.
PageOf(i) ==
    h_log[CHOOSE j \in 1..i : /\ h_log[j].op = "ids"
                              /\ \A k \in (j+1)..i : h_log[k].op = "detail"]
\* The ids whose detail request succeeded, in the order of the requests.
FetchedIds ==
    LET ok == SelectSeq(h_log, LAMBDA e : IsDetail(e) /\ e.res = "ok")
    IN  [i \in 1..Len(ok) |-> ok[i].at]

\* C4: once a page of ids comes back shorter than batch_size, no further page
\* is requested: the retrieval resolves the ids of that page and returns, also
\* with fewer than max_matches records.
C4_NoPageAfterShortPage ==
    \A i \in DOMAIN h_log :
        IsShort(h_log[i]) =>
            /\ \A j \in DOMAIN h_log : j > i => IsDetail(h_log[j])
            /\ h_pc \in {"detail", "returned", "done"}
            /\ h_pc = "detail" => Len(match_ids) = h_log[i].n /\ idx <= Len(match_ids)

\* C4's case: the retrieval has returned after a short, non-empty page with
\* fewer than max_matches records.
C4_Witness ==
    /\ h_pc = "returned"
    /\ Len(all_matches) > 0
    /\ Len(all_matches) < max_matches
    /\ \E i \in DOMAIN h_log : IsShort(h_log[i]) /\ h_log[i].n > 0

\* C5: the retrieval holds at most max_matches records; it requests a page of
\* ids only with fewer than max_matches records accumulated and after non-empty
\* pages only, and it requests no match detail with max_matches records
\* accumulated.
C5_BoundedByMaxMatches ==
    /\ Len(all_matches) <= max_matches
    /\ \A i \in DOMAIN h_log : h_log[i].acc < max_matches
    /\ \A i, j \in DOMAIN h_log :
          i < j /\ h_log[i].op = "ids" /\ h_log[j].op = "ids"
              => IsPage(h_log[i]) /\ h_log[i].n > 0

\* C5's case: the retrieval has returned with max_matches records and has left
\* ids of the last page unrequested.
C5_Witness ==
    /\ h_pc = "returned"
    /\ max_matches > 0
    /\ Len(all_matches) = max_matches
    /\ \E x \in 1..Len(match_ids) :
          \A i \in DOMAIN h_log : IsDetail(h_log[i]) => h_log[i].at # match_ids[x]

\* C6: a failed detail request skips its id only: the retrieval goes on with
\* the next id of the page, or after the last id of a full page with the next
\* page; the result holds the records of exactly the ids whose detail request
\* succeeded, in the order upstream listed them.
C6_AfterFailure(i) ==
    LET e == h_log[i]
        page == PageOf(i)
        last == e.at = page.at + page.n
    IN  IF i < Len(h_log)
        THEN IF last THEN h_log[i+1].op = "ids" /\ ~IsShort(page)
                     ELSE IsDetail(h_log[i+1]) /\ h_log[i+1].at = e.at + 1
        ELSE IF ~last THEN h_pc = "detail" /\ match_ids[idx] = e.at + 1
             ELSE IF IsShort(page) THEN Returned
             ELSE h_pc = "list" \/ (Returned /\ h_result = "return")
C6_PartialFailure ==
    /\ all_matches = FetchedIds
    /\ \A i, j \in DOMAIN all_matches : i < j => all_matches[i] < all_matches[j]
    /\ \A i \in DOMAIN h_log :
          IsDetail(h_log[i]) /\ h_log[i].res # "ok" => C6_AfterFailure(i)

\* C6's case: the retrieval has returned; a detail request failed and a later
\* id of the same page was fetched and is in the result.
C6_Witness ==
    /\ h_pc = "returned"
    /\ \E i \in DOMAIN h_log :
          /\ IsDetail(h_log[i]) /\ h_log[i].res # "ok"
          /\ i < Len(h_log)
          /\ IsDetail(h_log[i+1]) /\ h_log[i+1].res = "ok"
          /\ \E x \in DOMAIN all_matches : all_matches[x] = h_log[i+1].at

\* C7: when the request for a page of ids fails, get_full_match_history ends by
\* raising the error to its caller.
C7_ListFailurePropagates ==
    Returned /\ (\E i \in DOMAIN h_log : h_log[i].op = "ids" /\ h_log[i].res # "ok")
        => h_result = "raise"

\* C8: a request answered 403 is the last upstream request of the retrieval.
C8_AuthInvalidAborts ==
    \A i \in DOMAIN h_log : h_log[i].res = "403" => i = Len(h_log)

\* C9: the handler answers "No match history found" only when no request for a
\* page of ids failed.
C9_NoHistoryOnlyWithoutFailure ==
    response = "404 No match history found"
        => \A i \in DOMAIN h_log : h_log[i].op = "ids" => h_log[i].res = "ok"

\* The upstream requests for a page of ids made so far, in order.
Pages == SelectSeq(h_log, LAMBDA e : e.op = "ids")

\* C29: get_full_match_history returns after finitely many upstream requests,
\* whatever the pages hold and whichever requests fail: the k-th page is asked
\* at offset (k-1) * batch_size, no page is asked past the end of the upstream
\* history or once max_matches records are there, and a retrieval that has
\* begun returns.
C29_Advances ==
    /\ \A k \in DOMAIN Pages :
            /\ Pages[k].at = (k - 1) * batch_size
            /\ Pages[k].at <= MaxHistory
            /\ Pages[k].acc < max_matches
    /\ Len(h_log) <= (MaxHistory \div batch_size + 1) + MaxHistory
C29_RetrievalTerminates ==
    /\ []C29_Advances
    /\ (h_pc \in {"list", "detail"}) ~> Returned

\* C29's case: every detail request failed, page after page, and the retrieval
\* has returned with nothing after the page past the end of the history.
C29_Witness ==
    /\ h_pc = "returned"
    /\ all_matches = <<>>
    /\ Len(Pages) = MaxHistory \div batch_size + 1
    /\ \A i \in DOMAIN h_log : h_log[i].op = "detail" => h_log[i].res # "ok"
    /\ \E i \in DOMAIN h_log : h_log[i].op = "detail"

====
